---- MODULE Spec2Model ----
(***************************************************************************)
(* Model of the Swarm class of src/src/modules/SwarmIntelligence.ts.       *)
(*                                                                         *)
(* One swarm is modelled.  A JavaScript Map is a sequence in insertion     *)
(* order (Map.set of a present key keeps the key's position), an async     *)
(* method is split at its await: the part before the await runs in the     *)
(* caller's step, the part after it is a continuation queued on the        *)
(* microtask queue, and a setTimeout callback is a timer that fires only   *)
(* when the microtask queue is empty.  emitted and ret hold what the last  *)
(* step emitted and returned; hist counts, up to MaxEmits, how often the   *)
(* once-only events were emitted.                                          *)
(*                                                                         *)
(* Date.now() is the variable now, in milliseconds; it advances by Tick.   *)
(* The decay sweep is the setInterval callback started by the constructor; *)
(* timers run on their own clock, so a sweep may fire whatever now is.     *)
(* A trail's strength is a fixed-point number in units of 1/StrengthUnit,  *)
(* rounded down after every multiplication; a decay rate is in tenths.     *)
(* uuidv4() is a counter of the identifiers handed out so far.             *)
(*                                                                         *)
(* The coordinator (class SwarmIntelligence) keeps its swarms by their id  *)
(* and their state; what it re-emits for an event of its swarm is a        *)
(* function of the events the swarm's step emitted.                        *)
(***************************************************************************)
EXTENDS Integers, Sequences, FiniteSets, TLC

\* ------------------------------------------------------------------ bounds
Devices == {"d1", "d2", "d3"}
NoDevice == "none"
NoRole == "none"
Roles == {"leader", "member", "scout", "carrier"}

MaxMinDevices == 2
MaxCapacity == 2
MaxMessages == 2
MaxEmits == 2
MaxTrails == 2
MaxTicks == 3

\* every coordinated action broadcasts once, so the log bounds the actions
ActionIds == 1..MaxMessages

\* options.participants when the caller gives none
NoParticipants == <<"*">>

VARIABLES
    config,              \* Swarm.config: minDevices, maxDevices, leaderId
    state,               \* Swarm.state
    members,             \* Swarm.members, in Map insertion order
    leaderId,            \* Swarm.leaderId
    actions,             \* Swarm.actions, indexed by actionId
    formationPositions,  \* Swarm.formationPositions
    messages,            \* Swarm.messages
    metrics,             \* Swarm.metrics
    microtasks,          \* continuations of pending awaits, FIFO
    timers,              \* actionIds with a pending setTimeout callback
    emitted,             \* events emitted by the last step, in order
    ret,                 \* what the last call returned
    hist,                \* how often some events were emitted so far
    pheromones,          \* Swarm.pheromones, in Map insertion order
    trailCount,          \* identifiers uuidv4() has handed out to trails
    now,                 \* Date.now()
    nearby,              \* what the last findNearbyPheromones returned
    sharedKnowledge,     \* Swarm.sharedKnowledge, in Map insertion order
    positions,           \* what the last calculateFormationPositions returned
    snapshot,            \* what the last getMetrics returned
    maxSwarms,           \* SwarmIntelligence.maxSwarms
    swarms,              \* SwarmIntelligence.swarms, in Map insertion order
    swarmCount,          \* identifiers uuidv4() has handed out to swarms
    continuations        \* continuations of the coordinator's awaits, FIFO

vars == <<config, state, members, leaderId, actions, formationPositions,
          messages, metrics, microtasks, timers, emitted, ret, hist,
          pheromones, trailCount, now, nearby,
          sharedKnowledge, positions, snapshot,
          maxSwarms, swarms, swarmCount, continuations>>

\* the pheromone store, the clock and the last search result
fieldVars == <<pheromones, trailCount, now, nearby>>

\* the blackboard and the last results of the geometry and of the metrics
engineVars == <<sharedKnowledge, positions, snapshot,
                maxSwarms, swarms, swarmCount, continuations>>

\* the coordinator: its limit, its swarms and its pending continuations
coordVars == <<maxSwarms, swarms, swarmCount, continuations>>

\* ----------------------------------------------------------------- helpers
Min(a, b) == IF a < b THEN a ELSE b

Range(s) == {s[i] : i \in DOMAIN s}

\* an emitted event: its name, the device and the action or trail it names
Ev(name, dev, act) == [name |-> name, deviceId |-> dev, actionId |-> act]

EmittedNames == {emitted[i].name : i \in DOMAIN emitted}

MemberIds(ms) == {ms[i].deviceId : i \in DOMAIN ms}

\* Map.get
MemberIndex(ms, id) == CHOOSE i \in DOMAIN ms : ms[i].deviceId = id

\* Map.set: a present key keeps its position, a new key goes last
MapSet(ms, m) ==
    IF m.deviceId \in MemberIds(ms)
    THEN [ms EXCEPT ![MemberIndex(ms, m.deviceId)] = m]
    ELSE Append(ms, m)

\* Map.delete
MapDelete(ms, id) == SelectSeq(ms, LAMBDA m : m.deviceId # id)

\* Array.from(this.members.keys())
MemberKeys(ms) == [i \in DOMAIN ms |-> ms[i].deviceId]

RECURSIVE SumContribution(_)
SumContribution(ms) ==
    IF ms = <<>> THEN 0
    ELSE ms[1].contribution + SumContribution(Tail(ms))

CompletedActions(acts) == Cardinality({i \in DOMAIN acts : acts[i].status = "completed"})

calculateObjectiveProgress(acts) ==
    IF Len(acts) = 0 THEN 0
    ELSE (CompletedActions(acts) * 100) \div Len(acts)

\* updateMetrics with a message counter that is recomputed
updateMetricsResetCounter(ms, acts, met) ==
    [memberCount |-> Len(ms),
     messagesExchanged |-> 0,
     objectiveProgress |-> calculateObjectiveProgress(acts),
     averageContribution |->
         IF Len(ms) > 0 THEN SumContribution(ms) \div Len(ms) ELSE 0]

\* The snapshot keeps the message counter and recomputes the rest.
updateMetrics(ms, acts, met) ==
    [memberCount |-> Len(ms),
     messagesExchanged |-> met.messagesExchanged,
     objectiveProgress |-> calculateObjectiveProgress(acts),
     averageContribution |->
         IF Len(ms) > 0 THEN SumContribution(ms) \div Len(ms) ELSE 0]

initializeMetrics ==
    [memberCount |-> 0, messagesExchanged |-> 0,
     objectiveProgress |-> 0, averageContribution |-> 0]

\* formationPositions.get(deviceId) of a device without an entry
NoPosition == [actionId |-> 0, index |-> 0]

\* -------------------------------------------------------------------- Init
\* A swarm right after its construction from one of the given configs:
\* maxDevices 0 is an absent maximum, leaderId NoDevice an absent leader,
\* SwarmIntelligence.formSwarm passes its own deviceId as leaderId.
\* pheromoneDecay is parameters.pheromoneDecay in tenths, 0 when absent.
Configs ==
    [minDevices : {MaxMinDevices},
     maxDevices : {0, MaxCapacity},
     leaderId : {NoDevice, "d1"},
     pheromoneDecay : {0}]

\* this.maxSwarms = config.maxSwarms || 5
defaultMaxSwarms == 5

\* the constructor of the coordinator, given maxSwarms or 0 for none
maxSwarmsOf(given) == IF given = 0 THEN defaultMaxSwarms ELSE given

\* a swarm after its constructor, in a coordinator after its constructor
InitFor(configs, limits) ==
    /\ config \in configs
    /\ state = "forming"
    /\ members = <<>>
    /\ leaderId = config.leaderId
    /\ actions = <<>>
    /\ formationPositions = [d \in Devices |-> NoPosition]
    /\ messages = <<>>
    /\ metrics = initializeMetrics
    /\ microtasks = <<>>
    /\ timers = {}
    /\ emitted = <<>>
    /\ ret = "none"
    /\ hist = [ready |-> 0, dissolved |-> 0,
               completed |-> [a \in ActionIds |-> 0]]
    /\ pheromones = <<>>
    /\ trailCount = 0
    /\ now = 0
    /\ nearby = <<>>
    /\ sharedKnowledge = <<>>
    /\ positions = <<>>
    /\ snapshot = <<>>
    /\ maxSwarms \in {maxSwarmsOf(given) : given \in limits}
    /\ swarms = <<>>
    /\ swarmCount = 0
    /\ continuations = <<>>

\* a swarm after its constructor; its coordinator was given no maxSwarms
InitWith(configs) == InitFor(configs, {0})

\* ------------------------------------------------------- member management
\* a Location: z is 0 when the optional z is absent
Loc(x, y) == [x |-> x, y |-> y, z |-> 0]

Origin == Loc(0, 0)

\* velocity: { vx: 0, vy: 0 }
ZeroVelocity == [vx |-> 0, vy |-> 0]

\* the optional velocity argument when the caller gives none
NoVelocity == [vx |-> -1, vy |-> -1]

\* The member record join() builds; role is the optional argument.
NewMember(deviceId, location, role) ==
    [deviceId |-> deviceId,
     role |-> IF role # NoRole THEN role
              ELSE IF Len(members) = 0 THEN "leader" ELSE "member",
     location |-> location,
     velocity |-> ZeroVelocity,
     lastUpdate |-> now,
     contribution |-> 0]

\* JoinAdmits with the capacity test off by one
JoinAdmitsOverCapacity ==
    /\ state # "dissolved"
    /\ ~(config.maxDevices # 0 /\ Len(members) > config.maxDevices)

\* the two early returns of join
JoinAdmits ==
    /\ state # "dissolved"
    /\ ~(config.maxDevices # 0 /\ Len(members) >= config.maxDevices)

\* BecomesReady without the test of the state
BecomesReadyAnyState(ms) == Len(ms) >= config.minDevices

\* the forming -> ready test of join, on the roster after the admission
BecomesReady(ms) == state = "forming" /\ Len(ms) >= config.minDevices

\* FirstMember without the test for a leader already named
FirstMemberAnyLeader(ms) == Len(ms) = 1

\* !this.leaderId && this.members.size === 1, on the roster after the set
FirstMember(ms) == leaderId = NoDevice /\ Len(ms) = 1

Join(deviceId, location, role) ==
    /\ UNCHANGED <<fieldVars, engineVars>>
    /\ IF ~JoinAdmits
       THEN /\ ret' = "false"
            /\ emitted' = <<>>
            /\ UNCHANGED <<config, state, members, leaderId, actions,
                           formationPositions, messages, metrics,
                           microtasks, timers, hist>>
       ELSE LET set == MapSet(members, NewMember(deviceId, location, role))
                first == FirstMember(set)
                ms == IF first
                      THEN [set EXCEPT ![MemberIndex(set, deviceId)].role = "leader"]
                      ELSE set
                ready == BecomesReady(ms)
            IN  /\ members' = ms
                /\ leaderId' = IF first THEN deviceId ELSE leaderId
                /\ state' = IF ready THEN "ready" ELSE state
                /\ metrics' = updateMetrics(ms, actions, metrics)
                /\ emitted' = (IF ready THEN <<Ev("swarm:ready", NoDevice, 0)>> ELSE <<>>)
                              \o <<Ev("member:joined", deviceId, 0),
                                   Ev("metrics:updated", NoDevice, 0)>>
                /\ hist' = [hist EXCEPT !.ready =
                               IF ready THEN Min(@ + 1, MaxEmits) ELSE @]
                /\ ret' = "true"
                /\ UNCHANGED <<config, actions, formationPositions, messages,
                               microtasks, timers>>

\* Swarm.electNewLeader: the first member, in roster order, whose
\* contribution is greater than that of every member before it.
RECURSIVE electScan(_, _, _, _)
electScan(ms, i, best, highest) ==
    IF i > Len(ms) THEN best
    ELSE IF ms[i].contribution > highest
         THEN electScan(ms, i + 1, i, ms[i].contribution)
         ELSE electScan(ms, i + 1, best, highest)

\* electNewLeader with >= for >: the last of the tied members wins
RECURSIVE electScanLast(_, _, _, _)
electScanLast(ms, i, best, highest) ==
    IF i > Len(ms) THEN best
    ELSE IF ms[i].contribution >= highest
         THEN electScanLast(ms, i + 1, i, ms[i].contribution)
         ELSE electScanLast(ms, i + 1, best, highest)

electNewLeaderLast(ms) == electScanLast(ms, 1, 0, -1)

electNewLeader(ms) == electScan(ms, 1, 0, -1)

\* Understaffed without the test of the state
UnderstaffedAnyState(ms) == Len(ms) < config.minDevices

\* this.members.size < this.config.minDevices && this.state === EXECUTING
Understaffed(ms) == Len(ms) < config.minDevices /\ state = "executing"

\* LeaderLeft without the comparison with leaderId
SomeoneLeft(deviceId, rest) == Len(rest) > 0

\* deviceId === this.leaderId && this.members.size > 0, after the delete
LeaderLeft(deviceId, rest) == deviceId = leaderId /\ Len(rest) > 0

Leave(deviceId) ==
    /\ UNCHANGED <<fieldVars, engineVars>>
    /\ IF deviceId \notin MemberIds(members)
       THEN /\ ret' = "none"
            /\ emitted' = <<>>
            /\ UNCHANGED <<config, state, members, leaderId, actions,
                           formationPositions, messages, metrics,
                           microtasks, timers, hist>>
       ELSE LET rest == MapDelete(members, deviceId)
                elect == LeaderLeft(deviceId, rest)
                best == electNewLeader(rest)
                elected == elect /\ best # 0
                ms == IF elected THEN [rest EXCEPT ![best].role = "leader"]
                      ELSE rest
                understaffed == Understaffed(rest)
            IN  /\ members' = ms
                /\ leaderId' = IF elected THEN rest[best].deviceId ELSE leaderId
                /\ metrics' = updateMetrics(ms, actions, metrics)
                /\ emitted' = (IF elected
                               THEN <<Ev("leader:elected", rest[best].deviceId, 0)>>
                               ELSE <<>>)
                              \o (IF understaffed
                                  THEN <<Ev("swarm:understaffed", NoDevice, 0)>>
                                  ELSE <<>>)
                              \o <<Ev("member:left", deviceId, 0),
                                   Ev("metrics:updated", NoDevice, 0)>>
                /\ ret' = "none"
                /\ UNCHANGED <<config, state, actions, formationPositions,
                               messages, microtasks, timers, hist>>

\* MovedMember that assigns the velocity argument even when it is omitted
MovedMemberAnyVelocity(member, location, velocity) ==
    [member EXCEPT !.location = location,
                   !.velocity = velocity,
                   !.lastUpdate = now]

\* the assignments of updateMemberLocation to the member record
MovedMember(member, location, velocity) ==
    [member EXCEPT !.location = location,
                   !.velocity = IF velocity # NoVelocity THEN velocity ELSE @,
                   !.lastUpdate = now]

UpdateMemberLocation(deviceId, location, velocity) ==
    /\ ret' = "none"
    /\ IF deviceId \notin MemberIds(members)
       THEN /\ emitted' = <<>>
            /\ UNCHANGED members
       ELSE /\ members' = [members EXCEPT ![MemberIndex(members, deviceId)] =
                   MovedMember(@, location, velocity)]
            /\ emitted' = <<Ev("member:updated", deviceId, 0)>>
    /\ UNCHANGED <<config, state, leaderId, actions, formationPositions,
                   messages, metrics, microtasks, timers, hist>>
    /\ UNCHANGED <<fieldVars, engineVars>>

\* ----------------------------------------------------------- communication
\* The record broadcast() pushes on the log (its type and what it carries).
BroadcastMessage(content, type) ==
    [type |-> type, content |-> content]

\* Swarm.broadcast called from outside
Broadcast ==
    /\ UNCHANGED <<fieldVars, engineVars>>
    /\ Len(messages) < MaxMessages
    /\ messages' = Append(messages, BroadcastMessage("user", "broadcast"))
    /\ metrics' = [metrics EXCEPT !.messagesExchanged = @ + 1]
    /\ emitted' = <<Ev("message:broadcast", NoDevice, 0)>>
    /\ ret' = "none"
    /\ UNCHANGED <<config, state, members, leaderId, actions,
                   formationPositions, timers, microtasks, hist>>

\* ------------------------------------------------------ coordinated actions
\* ActionAllowed with join's test of the state
ActionAllowedUnlessDissolved == state # "dissolved"

\* the state test at the head of coordinatedAction
ActionAllowed == state \in {"ready", "executing"}

\* participants.forEach((deviceId, index) => formationPositions.set(...)):
\* a device listed twice ends with the position of its last index
AssignPositions(fp, actionId, participants) ==
    [d \in Devices |->
        IF d \in Range(participants)
        THEN [actionId |-> actionId,
              index |-> CHOOSE i \in DOMAIN participants :
                            /\ participants[i] = d
                            /\ \A j \in DOMAIN participants :
                                   participants[j] = d => j <= i]
        ELSE fp[d]]

\* Swarm.coordinatedAction up to the await of the broadcast
CoordinatedAction(optParticipants, optTimeout) ==
    /\ UNCHANGED <<fieldVars, engineVars>>
    /\ IF ~ActionAllowed
       THEN /\ ret' = "error"
            /\ emitted' = <<>>
            /\ UNCHANGED <<config, state, members, leaderId, actions,
                           formationPositions, messages, metrics,
                           microtasks, timers, hist>>
       ELSE /\ Len(messages) < MaxMessages
            /\ LET participants == IF optParticipants = NoParticipants
                                   THEN MemberKeys(members)
                                   ELSE optParticipants
                   actionId == Len(actions) + 1
                   action == [participants |-> participants,
                              status |-> "pending",
                              completedBy |-> <<>>]
               IN  /\ state' = "executing"
                   /\ actions' = Append(actions, action)
                   /\ formationPositions' =
                          AssignPositions(formationPositions, actionId, participants)
                   /\ messages' = Append(messages,
                          BroadcastMessage("coordinated-action", "broadcast"))
                   /\ metrics' = [metrics EXCEPT !.messagesExchanged = @ + 1]
                   /\ emitted' = <<Ev("message:broadcast", NoDevice, actionId)>>
                   /\ microtasks' = Append(microtasks,
                          [kind |-> "coordinatedAction", actionId |-> actionId,
                           timeout |-> optTimeout])
                   /\ ret' = "pending"
                   /\ UNCHANGED <<config, members, leaderId, timers, hist>>

\* Swarm.coordinatedAction after the await
CoordinatedActionResume ==
    /\ UNCHANGED <<fieldVars, engineVars>>
    /\ microtasks # <<>>
    /\ Head(microtasks).kind = "coordinatedAction"
    /\ LET actionId == Head(microtasks).actionId
       IN  /\ actions' = [actions EXCEPT ![actionId].status = "executing"]
           /\ emitted' = <<Ev("action:started", NoDevice, actionId)>>
           /\ timers' = IF Head(microtasks).timeout
                        THEN timers \cup {actionId} ELSE timers
    /\ microtasks' = Tail(microtasks)
    /\ ret' = "action"
    /\ UNCHANGED <<config, state, members, leaderId, formationPositions,
                   messages, metrics, hist>>

\* StillExecuting that looks for the status the action was registered with
StillPending(action) == action.status = "pending"

\* StillExecuting without the exemption of a completed action
StillExecutingOrCompleted(action) == action.status \in {"executing", "completed"}

\* the test of the setTimeout callback: action.status === 'executing'
StillExecuting(action) == action.status = "executing"

\* the setTimeout callback of coordinatedAction
ActionTimeout(actionId) ==
    /\ UNCHANGED <<fieldVars, engineVars>>
    /\ microtasks = <<>>
    /\ actionId \in timers
    /\ timers' = timers \ {actionId}
    /\ IF StillExecuting(actions[actionId])
       THEN /\ actions' = [actions EXCEPT ![actionId].status = "failed"]
            /\ emitted' = <<Ev("action:timeout", NoDevice, actionId)>>
       ELSE /\ emitted' = <<>>
            /\ UNCHANGED actions
    /\ ret' = "none"
    /\ UNCHANGED <<config, state, members, leaderId, formationPositions,
                   messages, metrics, microtasks, hist>>

\* RecordsCompletion without the test for an earlier report
RecordsCompletionAgain(action, deviceId, success) == success

\* the test of reportActionComplete that records a completion
RecordsCompletion(action, deviceId, success) ==
    success /\ deviceId \notin Range(action.completedBy)

\* the quorum test of reportActionComplete
AllCompleted(action) == Len(action.completedBy) = Len(action.participants)

ReportActionComplete(deviceId, actionId, success) ==
    /\ UNCHANGED <<fieldVars, engineVars>>
    /\ ret' = "none"
    /\ IF actionId \notin DOMAIN actions
       THEN /\ emitted' = <<>>
            /\ UNCHANGED <<config, state, members, leaderId, actions,
                           formationPositions, messages, metrics,
                           microtasks, timers, hist>>
       ELSE LET records == RecordsCompletion(actions[actionId], deviceId, success)
                pushed == IF records
                          THEN [actions[actionId] EXCEPT
                                   !.completedBy = Append(@, deviceId)]
                          ELSE actions[actionId]
                ms == IF records /\ deviceId \in MemberIds(members)
                      THEN [members EXCEPT
                               ![MemberIndex(members, deviceId)].contribution = @ + 10]
                      ELSE members
                done == AllCompleted(pushed)
                acts == [actions EXCEPT ![actionId] =
                            IF done THEN [pushed EXCEPT !.status = "completed"]
                            ELSE pushed]
            IN  /\ actions' = acts
                /\ members' = ms
                /\ metrics' = updateMetrics(ms, acts, metrics)
                /\ emitted' = (IF done
                               THEN <<Ev("action:completed", NoDevice, actionId)>>
                               ELSE <<>>)
                              \o <<Ev("metrics:updated", NoDevice, 0)>>
                /\ hist' = [hist EXCEPT !.completed[actionId] =
                               IF done THEN Min(@ + 1, MaxEmits) ELSE @]
                /\ UNCHANGED <<config, state, leaderId, formationPositions,
                               messages, microtasks, timers>>

\* ---------------------------------------------------------------- pheromones
\* the strength 1.0
StrengthUnit == 10 ^ 8

\* const lifetime = 60000
lifetime == 60000

\* the decay rate 0.1 used when the config gives none, in tenths
defaultDecay == 1

\* the strength 0.01 below which a trail fades
fadeThreshold == StrengthUnit \div 100

\* member.contribution += 5
depositContribution == 5

\* this.config.parameters?.pheromoneDecay || 0.1
decayRate ==
    IF config.pheromoneDecay # 0 THEN config.pheromoneDecay ELSE defaultDecay

\* NewTrail with the default strength whatever the argument
NewTrailDefaultStrength(deviceId, path, strength) ==
    [id |-> trailCount + 1,
     path |-> path,
     strength |-> StrengthUnit,
     createdBy |-> deviceId,
     createdAt |-> now,
     expiresAt |-> now + lifetime]

\* the trail record depositPheromone builds
NewTrail(deviceId, path, strength) ==
    [id |-> trailCount + 1,
     path |-> path,
     strength |-> strength,
     createdBy |-> deviceId,
     createdAt |-> now,
     expiresAt |-> now + lifetime]

TrailIds(ts) == {ts[i].id : i \in DOMAIN ts}

DepositPheromone(deviceId, path, strength) ==
    LET trail == NewTrail(deviceId, path, strength)
    IN  /\ trailCount < MaxTrails
        /\ pheromones' = Append(pheromones, trail)
        /\ trailCount' = trailCount + 1
        /\ emitted' = <<Ev("pheromone:deposited", deviceId, trail.id)>>
        /\ members' = IF deviceId \in MemberIds(members)
                      THEN [members EXCEPT
                               ![MemberIndex(members, deviceId)].contribution =
                                   @ + depositContribution]
                      ELSE members
        /\ ret' = "trail"
        /\ UNCHANGED <<config, state, leaderId, actions, formationPositions,
                       messages, metrics, microtasks, timers, hist, now, nearby>>
        /\ UNCHANGED engineVars

\* (dx * dx + dy * dy + dz * dz), the square of calculateDistance
DistanceSquared(a, b) ==
    (b.x - a.x) * (b.x - a.x) + (b.y - a.y) * (b.y - a.y)
        + (b.z - a.z) * (b.z - a.z)

\* WithinRadius without the points at the radius itself
WithinRadiusStrict(a, b, radius) ==
    radius >= 0 /\ DistanceSquared(a, b) < radius * radius

\* calculateDistance(a, b) <= radius: a square root is never negative
WithinRadius(a, b, radius) ==
    radius >= 0 /\ DistanceSquared(a, b) <= radius * radius

\* the inner loop of findNearbyPheromones
OnTrail(trail, location, radius) ==
    \E i \in DOMAIN trail.path : WithinRadius(location, trail.path[i], radius)

\* Array.sort((a, b) => b.strength - a.strength): a stable insertion, each
\* trail behind the trails that are at least as strong
RECURSIVE InsertByStrength(_, _)
InsertByStrength(sorted, t) ==
    IF sorted = <<>> THEN <<t>>
    ELSE IF Head(sorted).strength >= t.strength
         THEN <<Head(sorted)>> \o InsertByStrength(Tail(sorted), t)
         ELSE <<t>> \o sorted

RECURSIVE SortByStrength(_)
SortByStrength(ts) ==
    IF ts = <<>> THEN <<>>
    ELSE InsertByStrength(SortByStrength(SubSeq(ts, 1, Len(ts) - 1)), ts[Len(ts)])

findNearbyPheromones(location, radius) ==
    SortByStrength(SelectSeq(pheromones, LAMBDA t : OnTrail(t, location, radius)))

\* a call of findNearbyPheromones
FindNearbyPheromones(location, radius) ==
    /\ nearby' = findNearbyPheromones(location, radius)
    /\ emitted' = <<>>
    /\ ret' = "nearby"
    /\ UNCHANGED <<config, state, members, leaderId, actions,
                   formationPositions, messages, metrics, microtasks, timers,
                   hist, pheromones, trailCount, now>>
    /\ UNCHANGED engineVars

\* Expired with the expiry instant itself counted as past
ExpiredAtExpiry(trail) == now >= trail.expiresAt

\* now > trail.expiresAt
Expired(trail) == now > trail.expiresAt

\* trail.strength *= (1 - decayRate)
Decay(strength) == (strength * (10 - decayRate)) \div 10

\* trail.strength < 0.01
Fades(strength) == strength < fadeThreshold

\* One pass of the setInterval callback over the store: the trails it keeps,
\* decayed, in their order.
RECURSIVE sweepTrails(_)
sweepTrails(ts) ==
    IF ts = <<>> THEN <<>>
    ELSE IF Expired(Head(ts)) \/ Fades(Decay(Head(ts).strength))
         THEN sweepTrails(Tail(ts))
         ELSE <<[Head(ts) EXCEPT !.strength = Decay(@)]>> \o sweepTrails(Tail(ts))

\* the events of that pass, in the order of the store
RECURSIVE sweepEvents(_)
sweepEvents(ts) ==
    IF ts = <<>> THEN <<>>
    ELSE (IF Expired(Head(ts))
          THEN <<Ev("pheromone:expired", NoDevice, Head(ts).id)>>
          ELSE IF Fades(Decay(Head(ts).strength))
               THEN <<Ev("pheromone:faded", NoDevice, Head(ts).id)>>
               ELSE <<>>)
         \o sweepEvents(Tail(ts))

\* the setInterval callback of startPheromoneDecay
DecaySweep ==
    /\ microtasks = <<>>
    /\ pheromones' = sweepTrails(pheromones)
    /\ emitted' = sweepEvents(pheromones)
    /\ ret' = "none"
    /\ UNCHANGED <<config, state, members, leaderId, actions,
                   formationPositions, messages, metrics, microtasks, timers,
                   hist, trailCount, now, nearby>>
    /\ UNCHANGED engineVars

\* Date.now() moves on by half a trail's lifetime
ClockStep == lifetime \div 2

Tick ==
    /\ now < MaxTicks * ClockStep
    /\ now' = now + ClockStep
    /\ emitted' = <<>>
    /\ ret' = "none"
    /\ UNCHANGED <<config, state, members, leaderId, actions,
                   formationPositions, messages, metrics, microtasks, timers,
                   hist, pheromones, trailCount, nearby>>
    /\ UNCHANGED engineVars

\* ---------------------------------------------------------------- lifecycle
\* Swarm.dissolve up to the await of the broadcast
Dissolve ==
    /\ UNCHANGED <<fieldVars, engineVars>>
    /\ Len(messages) < MaxMessages
    /\ state' = "dispersing"
    /\ messages' = Append(messages, BroadcastMessage("dissolve", "broadcast"))
    /\ metrics' = [metrics EXCEPT !.messagesExchanged = @ + 1]
    /\ emitted' = <<Ev("message:broadcast", NoDevice, 0)>>
    /\ microtasks' = Append(microtasks,
           [kind |-> "dissolve", actionId |-> 0, timeout |-> FALSE])
    /\ ret' = "pending"
    /\ UNCHANGED <<config, members, leaderId, actions, formationPositions,
                   timers, hist>>

\* Swarm.dissolve after the await
DissolveResume ==
    /\ UNCHANGED <<fieldVars, engineVars>>
    /\ microtasks # <<>>
    /\ Head(microtasks).kind = "dissolve"
    /\ state' = "dissolved"
    /\ emitted' = <<Ev("swarm:dissolved", NoDevice, 0)>>
    /\ hist' = [hist EXCEPT !.dissolved = Min(@ + 1, MaxEmits)]
    /\ microtasks' = Tail(microtasks)
    /\ ret' = "none"
    /\ UNCHANGED <<config, members, leaderId, actions, formationPositions,
                   messages, metrics, timers>>

\* ----------------------------------------------------------- specifications
\* Membership and leadership: every device joins and leaves; one action is
\* started for d2 and d3, who report success.
Init == InitWith(Configs)

Next ==
    \/ \E d \in Devices : Join(d, Origin, NoRole)
    \/ \E d \in Devices : Leave(d)
    \/ actions = <<>> /\ CoordinatedAction(<<"d2", "d3">>, FALSE)
    \/ CoordinatedActionResume
    \/ \E d \in {"d2", "d3"}, a \in ActionIds : ReportActionComplete(d, a, TRUE)

Spec == Init /\ [][Next]_vars

\* Actions: d1 and d2 join a swarm without a maximum; one action is started
\* for the roster or for d1 alone, with and without a timeout; both devices
\* report success and failure, on the started and on an unknown action.
ActionConfigs ==
    {[minDevices |-> 1, maxDevices |-> 0, leaderId |-> NoDevice,
      pheromoneDecay |-> 0]}

InitAction == InitWith(ActionConfigs)

NextAction ==
    \/ \E d \in {"d1", "d2"} : Join(d, Origin, NoRole)
    \/ \E p \in {NoParticipants, <<"d1">>}, t \in BOOLEAN :
           actions = <<>> /\ CoordinatedAction(p, t)
    \/ CoordinatedActionResume
    \/ \E a \in ActionIds : ActionTimeout(a)
    \/ \E d \in {"d1", "d2"}, a \in ActionIds, s \in BOOLEAN :
           ReportActionComplete(d, a, s)

SpecAction == InitAction /\ [][NextAction]_vars

\* Lifecycle: d1 and d2 join and leave a swarm without a maximum, actions
\* are started for the roster and the swarm is dissolved, as often as the
\* log has room.
InitLifecycle == InitWith(ActionConfigs)

NextLifecycle ==
    \/ \E d \in {"d1", "d2"} : Join(d, Origin, NoRole)
    \/ \E d \in {"d1", "d2"} : Leave(d)
    \/ \E t \in BOOLEAN : CoordinatedAction(NoParticipants, t)
    \/ CoordinatedActionResume
    \/ \E a \in ActionIds : ActionTimeout(a)
    \/ Dissolve
    \/ DissolveResume

SpecLifecycle == InitLifecycle /\ [][NextLifecycle]_vars

\* Pheromones: d1 and d2 join; d1 and d3, which never joins, deposit trails
\* of strength 1.0 and 0.02 while the clock and the decay sweeps run.  With
\* the slow default decay rate the store holds one trail at a time, with
\* the rate 0.5 as many as were deposited.
PheromoneConfigs ==
    [minDevices : {1}, maxDevices : {0}, leaderId : {NoDevice},
     pheromoneDecay : {0, 5}]

FaintStrength == StrengthUnit \div 50

Strengths == {StrengthUnit, FaintStrength}

Near == Loc(3, 4)

Far == Loc(6, 8)

Paths == {<<Origin>>, <<Far, Near>>, <<Origin, Near>>}

InitPheromone == InitWith(PheromoneConfigs)

NextPheromone ==
    \/ \E d \in {"d1", "d2"} : trailCount = 0 /\ now = 0 /\ Join(d, Origin, NoRole)
    \/ \E d \in {"d1", "d3"}, s \in Strengths :
           /\ decayRate = defaultDecay => pheromones = <<>>
           /\ DepositPheromone(d, <<Origin>>, s)
    \/ DecaySweep
    \/ Tick

SpecPheromone == InitPheromone /\ [][NextPheromone]_vars

\* The roster: d1 and d2 join, with and without a role, at two places, move
\* and leave while the clock runs; d3 never joins but is asked to move and
\* to leave.  A leader is pre-assigned or not.
RosterConfigs ==
    [minDevices : {1}, maxDevices : {0}, leaderId : {NoDevice, "d1"},
     pheromoneDecay : {0}]

JoinRoles == {NoRole, "scout"}

Locations == {Origin, Near}

Moving == [vx |-> 1, vy |-> 0]

InitRoster == InitWith(RosterConfigs)

NextRoster ==
    \/ \E d \in {"d1", "d2"}, l \in Locations, r \in JoinRoles : Join(d, l, r)
    \/ \E d \in Devices : Leave(d)
    \/ \E d \in Devices, l \in Locations, v \in {NoVelocity, Moving} :
           UpdateMemberLocation(d, l, v)
    \/ Tick

SpecRoster == InitRoster /\ [][NextRoster]_vars

\* Search: d3 deposits trails along three paths, the decay sweep runs at the
\* rate 0.5 and the store is searched around two places, for the places
\* themselves and for everything up to 5 away.
NearbyConfigs ==
    {[minDevices |-> 1, maxDevices |-> 0, leaderId |-> NoDevice,
      pheromoneDecay |-> 5]}

Radii == {0, 5}

InitNearby == InitWith(NearbyConfigs)

NextNearby ==
    \/ \E path \in Paths, s \in Strengths : DepositPheromone("d3", path, s)
    \/ DecaySweep
    \/ \E l \in Locations, r \in Radii : FindNearbyPheromones(l, r)

SpecNearby == InitNearby /\ [][NextNearby]_vars

\* ------------------------------------------------- membership and leadership
HasMaximum == config.maxDevices # 0

AtMaximum == HasMaximum /\ Len(members) >= config.maxDevices

\* C1: the member count never exceeds the configured maximum, and a Join
\* attempted while the roster is at the maximum returns false and leaves the
\* roster unchanged.
C1_CapacityRespected ==
    [][/\ HasMaximum => Len(members') <= config.maxDevices
       /\ \A d \in Devices :
              (AtMaximum /\ Join(d, Origin, NoRole)) =>
                  (ret' = "false" /\ members' = members)]_vars

\* a Join was refused by a full roster
C1_Witness ==
    /\ ret = "false"
    /\ HasMaximum
    /\ Len(members) = config.maxDevices

ReadyEmitted == "swarm:ready" \in EmittedNames

\* C2: forming -> ready and its swarm:ready notification happen exactly once,
\* in the Join that first brings the member count up to minDevices: never
\* while the count is below minDevices and never again afterwards, whatever
\* leaves and joins follow.
C2_ReadyExactlyOnce ==
    [][/\ hist'.ready = IF state' = "forming" THEN 0 ELSE 1
       /\ state = "forming" => Len(members) < config.minDevices
       /\ state' = "forming" => Len(members') < config.minDevices
       /\ ReadyEmitted' <=>
              /\ state = "forming"
              /\ state' = "ready"
              /\ Len(members') >= config.minDevices
              /\ \E d \in Devices : Join(d, Origin, NoRole)]_vars

\* after swarm:ready every member left (the leader reference is stale) and
\* a later Join brought the count back to minDevices without a second
\* notification
C2_Witness ==
    /\ hist.ready = 1
    /\ ret = "true"
    /\ ~ReadyEmitted
    /\ Len(members) = config.minDevices
    /\ config.leaderId = NoDevice
    /\ leaderId \notin MemberIds(members)

\* C3: the leader reference is unset or names a member of the roster.
C3_LeaderIsMember == leaderId = NoDevice \/ leaderId \in MemberIds(members)

\* C4: when the leader leaves and members remain, the new leader is the
\* remaining member with the highest contribution, the earliest joined (the
\* first in roster order) among those tied for it, and leader:elected names it.
C4_ElectsHighestEarliest ==
    [][\A d \in Devices :
        (d = leaderId /\ d \in MemberIds(members) /\ Len(members) > 1 /\ Leave(d)) =>
            LET rest == MapDelete(members, d)
            IN  \E i \in DOMAIN rest :
                    /\ leaderId' = rest[i].deviceId
                    /\ \A j \in DOMAIN rest :
                           rest[j].contribution <= rest[i].contribution
                    /\ \A j \in 1..(i - 1) :
                           rest[j].contribution < rest[i].contribution
                    /\ Ev("leader:elected", rest[i].deviceId, 0) \in Range(emitted')]_vars

\* the leader left and the later joined of the two remaining members, with
\* the higher contribution, was elected
C4_Witness ==
    /\ "leader:elected" \in EmittedNames
    /\ Len(members) = 2
    /\ members[2].contribution > members[1].contribution
    /\ leaderId = members[2].deviceId


\* ------------------------------------------------------ coordinated actions
Participants(a) == Range(actions[a].participants)

CompletedBy(a) == Range(actions[a].completedBy)

Contribution(ms, d) == ms[MemberIndex(ms, d)].contribution

\* C5: an action's status is completed exactly when its completed-set equals
\* its participant set.
C5_CompletedIffQuorum ==
    \A a \in DOMAIN actions :
        actions[a].status = "completed" <=> CompletedBy(a) = Participants(a)

\* C6: action:completed is emitted at most once per action.
C6_CompletedEmittedOnce == \A a \in ActionIds : hist.completed[a] <= 1

\* C7: a timeout that finds its action executing makes it failed and emits
\* action:timeout; afterwards every report on the action is ignored: the
\* action and every member's contribution stay as they are and no
\* action:completed is emitted.
C7_FailedIgnoresReports ==
    [][\A a \in DOMAIN actions :
        /\ (actions[a].status = "executing" /\ ActionTimeout(a)) =>
               /\ actions'[a].status = "failed"
               /\ Ev("action:timeout", NoDevice, a) \in Range(emitted')
        /\ actions[a].status = "failed" =>
               \A d \in Devices, s \in BOOLEAN :
                   ReportActionComplete(d, a, s) =>
                       /\ actions'[a] = actions[a]
                       /\ members' = members
                       /\ "action:completed" \notin EmittedNames']_vars

\* C8: per action the completed-set only grows and holds no member twice; a
\* report raises the reporting member's contribution by 10 when it is its
\* first successful report on the action and by 0 otherwise.
C8_ReportIdempotent ==
    [][/\ \A a \in DOMAIN actions :
              LET before == actions[a].completedBy
                  after == actions'[a].completedBy
              IN  /\ Len(before) <= Len(after)
                  /\ SubSeq(after, 1, Len(before)) = before
                  /\ Cardinality(Range(after)) = Len(after)
       /\ \A d \in MemberIds(members), a \in ActionIds, s \in BOOLEAN :
              ReportActionComplete(d, a, s) =>
                  Contribution(members', d) - Contribution(members, d) =
                      IF s /\ a \in DOMAIN actions /\ d \notin CompletedBy(a)
                      THEN 10 ELSE 0]_vars

\* a member with one counted report on an action that was reported complete
\* more than once
C8_Witness ==
    \E a \in DOMAIN actions, d \in MemberIds(members) :
        /\ d \in CompletedBy(a)
        /\ Contribution(members, d) = 10
        /\ hist.completed[a] = MaxEmits
        /\ "action:completed" \in EmittedNames

\* ---------------------------------------------------------------- lifecycle
\* C9: StartAction succeeds only in state ready or executing and then sets
\* the state to executing; in any other state it fails with an error and
\* leaves the state, the actions, the formation assignments and the message
\* log unchanged.
C9_StartActionNeedsReady ==
    [][\A t \in BOOLEAN :
        CoordinatedAction(NoParticipants, t) =>
            IF state \in {"ready", "executing"}
            THEN ret' = "pending" /\ state' = "executing"
            ELSE /\ ret' = "error"
                 /\ UNCHANGED <<state, actions, formationPositions, messages>>]_vars

\* StartAction failed on a dissolved swarm
C9_Witness == ret = "error" /\ state = "dissolved" /\ messages # <<>>

DissolveBegun == state \in {"dispersing", "dissolved"}

\* C10: the dissolved state is reached once, and a Dissolve called after an
\* earlier Dissolve (finished or still in progress) changes no state, appends
\* no message and emits nothing.
C10_DissolveIdempotent ==
    [][/\ hist'.dissolved <= 1
       /\ (DissolveBegun /\ Dissolve) =>
              /\ UNCHANGED <<state, messages, metrics, microtasks>>
              /\ emitted' = <<>>]_vars

\* ----------------------------------------------------------- after dissolve
\* the swarm state an operation can change
swarmState == <<state, members, leaderId, actions, formationPositions,
                messages, metrics, pheromones>>

\* C11: on a dissolved swarm every mutating operation (Join, Leave,
\* UpdatePosition, StartAction, ReportCompletion, Deposit, Broadcast) fails
\* fast: it changes no swarm state and emits no notification.
C11_DissolvedFailsFast ==
    [][state = "dissolved" =>
        \A d \in Devices :
            (\/ Join(d, Origin, NoRole)
             \/ Leave(d)
             \/ UpdateMemberLocation(d, Origin, NoVelocity)
             \/ \E t \in BOOLEAN : CoordinatedAction(NoParticipants, t)
             \/ \E a \in ActionIds, s \in BOOLEAN : ReportActionComplete(d, a, s)
             \/ DepositPheromone(d, <<Origin>>, StrengthUnit)
             \/ Broadcast)
            => (UNCHANGED swarmState /\ emitted' = <<>>)]_vars

TimerEvents == {"pheromone:expired", "pheromone:faded", "action:timeout"}

\* C12: once the swarm is dissolved no timer of it acts: a decay sweep or an
\* action timeout that fires changes no trail, removes no trail, turns no
\* action failed and emits no pheromone or action:timeout notification.
C12_DissolveStopsTimers ==
    [][(state = "dissolved" /\ (DecaySweep \/ \E a \in ActionIds : ActionTimeout(a))) =>
        /\ pheromones' = pheromones
        /\ \A a \in DOMAIN actions :
               actions'[a].status = "failed" => actions[a].status = "failed"
        /\ EmittedNames' \cap TimerEvents = {}]_vars

\* the place of a state on forming -> ready -> executing -> dispersing -> dissolved
StateRank(s) ==
    CASE s = "forming" -> 0
      [] s = "ready" -> 1
      [] s = "executing" -> 2
      [] s = "dispersing" -> 3
      [] s = "dissolved" -> 4

\* C13: the lifecycle state only moves forward along forming -> ready ->
\* executing -> dispersing -> dissolved; no step returns to an earlier state,
\* and dissolved is terminal.
C13_StateOnlyForward == [][StateRank(state') >= StateRank(state)]_vars

\* ---------------------------------------------------------------- pheromones
\* a strength after n multiplications by 0.9
RECURSIVE NineTenths(_, _)
NineTenths(s, n) == IF n = 0 THEN s ELSE NineTenths((s * 9) \div 10, n - 1)

\* the sweep keeps a trail that is not past its expiry and whose decayed
\* strength is not below 0.01
SweepKeeps(t) ==
    /\ now <= t.expiresAt
    /\ t.strength * (10 - decayRate) >= 10 * fadeThreshold

\* t.strength * (1 - decayRate), to the precision of the fixed point
DecayedOnce(before, after) ==
    /\ 10 * after <= before * (10 - decayRate)
    /\ before * (10 - decayRate) < 10 * after + 10

\* C14: a decay sweep multiplies the strength of every stored trail that is
\* not expired by (1 - decayRate) once and removes exactly the trails past
\* their expiry or with a strength fallen below 0.01; after it no stored
\* trail is below 0.01 or past its expiry.  At the rate 0.1 a trail of
\* strength 1.0 has strength 0.9 after one sweep, is still stored after 43
\* sweeps and is removed by the 44th, unless its expiry comes first.
C14_DecaySweep ==
    [][DecaySweep =>
        /\ TrailIds(pheromones') =
               {pheromones[i].id : i \in {j \in DOMAIN pheromones : SweepKeeps(pheromones[j])}}
        /\ Len(pheromones') = Cardinality(TrailIds(pheromones'))
        /\ \A j \in DOMAIN pheromones' :
               /\ pheromones'[j].strength >= fadeThreshold
               /\ pheromones'[j].expiresAt >= now
               /\ \E i \in DOMAIN pheromones :
                      /\ pheromones'[j] =
                             [pheromones[i] EXCEPT !.strength = pheromones'[j].strength]
                      /\ DecayedOnce(pheromones[i].strength, pheromones'[j].strength)
        /\ decayRate = defaultDecay =>
               \A i \in DOMAIN pheromones, n \in 0..43 :
                   (pheromones[i].strength = NineTenths(StrengthUnit, n)
                        /\ now <= pheromones[i].expiresAt) =>
                       IF n < 43
                       THEN \E j \in DOMAIN pheromones' :
                                /\ pheromones'[j].id = pheromones[i].id
                                /\ pheromones'[j].strength = NineTenths(StrengthUnit, n + 1)
                                /\ (n = 0 => 10 * pheromones'[j].strength = 9 * StrengthUnit)
                       ELSE pheromones[i].id \notin TrailIds(pheromones')]_vars

\* at the rate 0.1 a trail of strength 1.0 has been through 43 sweeps and is
\* still stored, with a strength the next sweep takes below 0.01
C14_Witness ==
    /\ decayRate = defaultDecay
    /\ \E i \in DOMAIN pheromones :
           /\ pheromones[i].strength = NineTenths(StrengthUnit, 43)
           /\ now <= pheromones[i].expiresAt

\* C15: a Deposit on a swarm that is not dissolved succeeds: it adds one
\* trail with a fresh identifier and the given strength to the store, emits
\* pheromone:deposited and raises the creator's contribution by 5 (when the
\* creator is a member), changing no other member and no other trail.
C15_DepositAddsOneTrail ==
    [][\A d \in Devices, s \in Strengths :
        (state # "dissolved" /\ DepositPheromone(d, <<Origin>>, s)) =>
            LET trail == pheromones'[Len(pheromones')]
            IN  /\ ret' = "trail"
                /\ Len(pheromones') = Len(pheromones) + 1
                /\ SubSeq(pheromones', 1, Len(pheromones)) = pheromones
                /\ trail.id \notin TrailIds(pheromones)
                /\ trail.strength = s
                /\ trail.createdBy = d
                /\ emitted' = <<Ev("pheromone:deposited", d, trail.id)>>
                /\ Len(members') = Len(members)
                /\ \A i \in DOMAIN members :
                       members'[i] =
                           IF members[i].deviceId = d
                           THEN [members[i] EXCEPT !.contribution = @ + 5]
                           ELSE members[i]]_vars

\* d1 deposited twice while d2 did not: two trails are stored, d1 has 10 and
\* d2 has 0
C15_Witness ==
    /\ ret = "trail"
    /\ Len(pheromones) = 2
    /\ MemberIds(members) = {"d1", "d2"}
    /\ Contribution(members, "d1") = 10
    /\ Contribution(members, "d2") = 0

\* --------------------------------------------------------------- the roster
\* C16: the contribution of a member never decreases for as long as its
\* identifier is in the roster, whatever operation runs (a Join of an
\* identifier that is already a member included).
C16_ContributionMonotone ==
    [][\A d \in MemberIds(members) \cap MemberIds(members') :
        Contribution(members', d) >= Contribution(members, d)]_vars

Role(ms, d) == ms[MemberIndex(ms, d)].role

\* C17: without a pre-assigned leader the first member admitted becomes the
\* leader: the leader reference names it and its role is leader; when a
\* leader is named already (pre-assigned or elected), admitting a member
\* does not change the leader reference.  The leader reference is unset only
\* until the first admission.
C17_FirstMemberLeads ==
    [][/\ \A d \in Devices, l \in Locations, r \in JoinRoles :
              (Join(d, l, r) /\ ret' = "true") =>
                  IF leaderId = NoDevice
                  THEN /\ members = <<>>
                       /\ config.leaderId = NoDevice
                       /\ leaderId' = d
                       /\ Role(members', d) = "leader"
                  ELSE leaderId' = leaderId
       /\ leaderId' = NoDevice => members' = <<>>
       /\ leaderId # NoDevice => leaderId' # NoDevice]_vars

\* the first member was admitted where no leader was pre-assigned and leads
C17_Witness ==
    /\ config.leaderId = NoDevice
    /\ ret = "true"
    /\ "member:joined" \in EmittedNames
    /\ Len(members) = 1
    /\ leaderId = members[1].deviceId
    /\ members[1].role = "leader"

\* C18: a Leave that brings the member count below minDevices while the
\* swarm is executing emits swarm:understaffed and leaves the state
\* executing; a Leave in any other case emits no swarm:understaffed, and no
\* Leave changes the state.
C18_UnderstaffedNoDissolve ==
    [][\A d \in MemberIds(members) :
        Leave(d) =>
            /\ state' = state
            /\ "swarm:understaffed" \in EmittedNames' <=>
                   (state = "executing" /\ Len(members') < config.minDevices)
            /\ "swarm:dissolved" \notin EmittedNames']_vars

\* a member left an executing swarm, which is below minDevices and still
\* executing
C18_Witness ==
    /\ "swarm:understaffed" \in EmittedNames
    /\ "member:left" \in EmittedNames
    /\ state = "executing"
    /\ Len(members) < config.minDevices

\* C19: UpdatePosition and Leave for an identifier that is not in the roster
\* change no member, no leader, no swarm state and no metrics and emit
\* nothing; UpdatePosition for a member changes that member's position, its
\* velocity when one is supplied and its timestamp, and nothing else.
C19_UnknownMemberNoOp ==
    [][\A d \in Devices, l \in Locations, v \in {NoVelocity, Moving} :
        /\ (d \notin MemberIds(members) /\ (Leave(d) \/ UpdateMemberLocation(d, l, v))) =>
               /\ UNCHANGED <<members, leaderId, state, metrics>>
               /\ emitted' = <<>>
        /\ (d \in MemberIds(members) /\ UpdateMemberLocation(d, l, v)) =>
               /\ UNCHANGED <<leaderId, state, metrics, actions, messages,
                              pheromones, formationPositions>>
               /\ Len(members') = Len(members)
               /\ \A i \in DOMAIN members :
                      IF members[i].deviceId # d
                      THEN members'[i] = members[i]
                      ELSE /\ members'[i].deviceId = d
                           /\ members'[i].role = members[i].role
                           /\ members'[i].contribution = members[i].contribution
                           /\ members'[i].location = l
                           /\ members'[i].lastUpdate = now
                           /\ members'[i].velocity =
                                  IF v = NoVelocity THEN members[i].velocity ELSE v]_vars

\* after the clock moved on a member was moved to Near and given a
\* velocity, beside a member that has not moved since it joined at time 0
C19_Witness ==
    /\ "member:updated" \in EmittedNames
    /\ Len(members) = 2
    /\ \E i, j \in DOMAIN members :
           /\ members[i].velocity = Moving
           /\ members[i].location = Near
           /\ members[i].lastUpdate = now
           /\ now > 0
           /\ members[j].velocity = ZeroVelocity
           /\ members[j].lastUpdate = 0

\* ------------------------------------------------------------------- search
\* the point p is no further than r from the place l
Reaches(l, r, p) ==
    (p.x - l.x) ^ 2 + (p.y - l.y) ^ 2 + (p.z - l.z) ^ 2 <= r ^ 2

\* C20: FindNearby(location, radius) returns exactly the stored trails with
\* at least one path point at distance <= radius from location, each once,
\* in order of non-increasing strength, and leaves the store as it is.
C20_FindNearbyExact ==
    [][\A l \in Locations, r \in Radii :
        FindNearbyPheromones(l, r) =>
            /\ pheromones' = pheromones
            /\ Range(nearby') =
                   {t \in Range(pheromones) :
                        \E k \in DOMAIN t.path : Reaches(l, r, t.path[k])}
            /\ Len(nearby') = Cardinality(Range(nearby'))
            /\ \A i, j \in DOMAIN nearby' :
                   i < j => nearby'[i].strength >= nearby'[j].strength]_vars

\* a search returned two trails, the later deposited and stronger one first;
\* that one lies on its second path point only
C20_Witness ==
    /\ ret = "nearby"
    /\ Len(nearby) = 2
    /\ nearby[1].id > nearby[2].id
    /\ nearby[1].strength > nearby[2].strength
    /\ nearby[1].path = <<Far, Near>>
    /\ nearby[2].path = <<Origin, Near>>

\* ------------------------------------------------------- formation control
\* FormationType
Formations == {"circle", "line", "wedge", "grid", "surround", "convoy", "scatter"}

\* the largest participant count tried: its seventh position opens the
\* second ring of SURROUND
MaxCount == 7

\* Positions are kept exact. A straight-line formation gives coordinates in
\* half units (x2 = 2 * x); a position on a circle is its centre, the square
\* of four times its radius and its angle as the fraction num / den of a turn
\* (den 0 when the code divides by a zero count).
Straight(center, dx2, dy2) ==
    [x2 |-> 2 * center.x + dx2, y2 |-> 2 * center.y + dy2, z |-> center.z]

Polar(center, radiusSq16, num, den) ==
    [cx |-> center.x, cy |-> center.y, z |-> center.z,
     radiusSq16 |-> radiusSq16, num |-> num, den |-> den]

Max(a, b) == IF a >= b THEN a ELSE b

\* Math.ceil(a / b) for a >= 0 and b > 0
CeilDiv(a, b) == (a + b - 1) \div b

\* Math.ceil(Math.sqrt(n))
CeilSqrt(n) == CHOOSE c \in 0..n : c * c >= n /\ (c = 0 \/ (c - 1) * (c - 1) < n)

spacing == 5

\* circlePositions with the angle PI * i / count
circlePositionsHalf(center, count) ==
    [k \in 1..count |->
        Polar(center, (spacing * Max(4, count)) * (spacing * Max(4, count)),
              k - 1, 2 * count)]

\* CIRCLE: radius = spacing * max(1, count / 4), angle = 2 * PI * i / count
circlePositions(center, count) ==
    [k \in 1..count |->
        Polar(center, (spacing * Max(4, count)) * (spacing * Max(4, count)),
              k - 1, count)]

\* LINE: x from center.x - spacing * (count - 1) / 2 in steps of spacing
linePositions(center, count) ==
    [k \in 1..count |->
        Straight(center, 2 * spacing * (k - 1) - spacing * (count - 1), 0)]

\* WEDGE from its second position on: row = ceil(i / 2), side by parity of i
wedgeFollower(center, i) ==
    Straight(center, -(2 * spacing * CeilDiv(i, 2)),
             (IF i % 2 = 0 THEN 1 ELSE -1) * CeilDiv(i, 2) * spacing)

\* WEDGE: the centre is pushed before the loop, which starts at i = 1
wedgePositions(center, count) ==
    <<Straight(center, 0, 0)>> \o
    [k \in 1..(count - 1) |-> wedgeFollower(center, k)]

\* GRID: cols = ceil(sqrt(count)), rows = ceil(count / cols)
gridPositions(center, count) ==
    [k \in 1..count |->
        Straight(center,
                 2 * spacing * ((k - 1) % CeilSqrt(count))
                     - spacing * (CeilSqrt(count) - 1),
                 2 * spacing * ((k - 1) \div CeilSqrt(count))
                     - spacing * (CeilDiv(count, CeilSqrt(count)) - 1))]

\* SURROUND: while (placed < count) one ring of min(count - placed, ring * 6)
RECURSIVE surroundRings(_, _, _, _)
surroundRings(center, count, placed, ring) ==
    IF placed < count
    THEN [i \in 1..Min(count - placed, ring * 6) |->
             Polar(center, (4 * spacing * ring) * (4 * spacing * ring),
                   i - 1, Min(count - placed, ring * 6))]
         \o surroundRings(center, count,
                          placed + Min(count - placed, ring * 6), ring + 1)
    ELSE <<>>

surroundPositions(center, count) == surroundRings(center, count, 0, 1)

\* CONVOY: x = center.x - spacing * i
convoyPositions(center, count) ==
    [k \in 1..count |-> Straight(center, -(2 * spacing * (k - 1)), 0)]

\* Two results of Math.random() per scattered position, each 0 or 1/2 (in
\* halves): angle = random * 2 * PI, r = random * spacing * sqrt(count)
Draws == {[angle |-> 0, r |-> 0], [angle |-> 1, r |-> 1]}

scatterPositions(center, count, draws) ==
    [k \in 1..count |->
        Polar(center, 4 * draws[k].r * draws[k].r * spacing * spacing * count,
              draws[k].angle, 2)]

calculateFormationPositions(center, formation, count, draws) ==
    CASE formation = "circle" -> circlePositions(center, count)
      [] formation = "line" -> linePositions(center, count)
      [] formation = "wedge" -> wedgePositions(center, count)
      [] formation = "grid" -> gridPositions(center, count)
      [] formation = "surround" -> surroundPositions(center, count)
      [] formation = "convoy" -> convoyPositions(center, count)
      [] formation = "scatter" -> scatterPositions(center, count, draws)

\* One call of calculateFormationPositions, as coordinatedAction makes it
\* with the length of its participant list.
CalculateFormationPositions(center, formation, count) ==
    /\ \E draws \in (IF formation = "scatter" THEN [1..count -> Draws] ELSE {<<>>}) :
           positions' = calculateFormationPositions(center, formation, count, draws)
    /\ ret' = "positions"
    /\ UNCHANGED <<config, state, members, leaderId, actions,
                   formationPositions, messages, metrics, microtasks, timers,
                   emitted, hist, sharedKnowledge, snapshot>>
    /\ UNCHANGED coordVars
    /\ UNCHANGED fieldVars

Centers == {Origin, Near}

FormationConfigs ==
    [minDevices : {MaxMinDevices},
     maxDevices : {0},
     leaderId : {NoDevice},
     pheromoneDecay : {0}]

InitFormation == InitWith(FormationConfigs)

NextFormation ==
    \E center \in Centers, formation \in Formations, count \in 0..MaxCount :
        CalculateFormationPositions(center, formation, count)

SpecFormation == InitFormation /\ [][NextFormation]_vars

\* C21: whatever the formation kind and the count (zero included), the list
\* calculateFormationPositions returns has exactly count positions.
C21_ExactlyCountPositions ==
    [][\A center \in Centers, formation \in Formations, count \in 0..MaxCount :
          CalculateFormationPositions(center, formation, count)
              => Len(positions') = count]_vars

\* ------------------------------------------------------------ communication
DirectMessage(to, content) ==
    [type |-> "direct", content |-> content, to |-> to]

\* Swarm.sendDirect: the recipient is not looked up in the roster
SendDirect(to) ==
    /\ Len(messages) < MaxMessages
    /\ messages' = Append(messages, DirectMessage(to, "user"))
    /\ metrics' = [metrics EXCEPT !.messagesExchanged = @ + 1]
    /\ emitted' = <<Ev("message:direct", to, 0)>>
    /\ ret' = "none"
    /\ UNCHANGED <<config, state, members, leaderId, actions,
                   formationPositions, timers, microtasks, hist>>
    /\ UNCHANGED <<fieldVars, engineVars>>

\* Messaging: d1 and d2 join and d2 leaves, broadcasts and direct messages to
\* d1 and to d3 are sent, and one coordinated action is started and
\* reported; joins, leaves and reports recompute the metrics.
InitMessaging == InitWith(ActionConfigs)

NextMessaging ==
    \/ \E d \in {"d1", "d2"} : Join(d, Origin, NoRole)
    \/ Leave("d2")
    \/ Broadcast
    \/ \E to \in {"d1", "d3"} : SendDirect(to)
    \/ actions = <<>> /\ CoordinatedAction(NoParticipants, FALSE)
    \/ CoordinatedActionResume
    \/ \E d \in {"d1", "d2"} : ReportActionComplete(d, 1, TRUE)

SpecMessaging == InitMessaging /\ [][NextMessaging]_vars

\* C22: a broadcast and a direct message each add one record to the log and
\* one to the counter; no step lowers the counter, and after every step the
\* counter is the number of records in the log.
C22_CounterIsLogLength ==
    [][/\ (Broadcast \/ \E to \in Devices : SendDirect(to)) =>
              /\ Len(messages') = Len(messages) + 1
              /\ metrics'.messagesExchanged = metrics.messagesExchanged + 1
       /\ metrics'.messagesExchanged >= metrics.messagesExchanged
       /\ metrics'.messagesExchanged = Len(messages')]_vars

\* a direct message and a broadcast are in the log and a join has just
\* recomputed the metrics for a roster of two
C22_Witness ==
    /\ ret = "true"
    /\ Len(messages) = 2
    /\ \E i \in DOMAIN messages : messages[i].type = "direct"
    /\ \E i \in DOMAIN messages : messages[i].type = "broadcast"
    /\ metrics.memberCount = 2
    /\ metrics.messagesExchanged = 2

\* --------------------------------------------------------- shared knowledge
\* sharedKnowledge.get(key) of a key without an entry
NoValue == [absent |-> TRUE]

KnowledgeKeys(sk) == {sk[i].key : i \in DOMAIN sk}

\* Map.get
KnowledgeGet(sk, key) ==
    IF key \in KnowledgeKeys(sk)
    THEN sk[CHOOSE i \in DOMAIN sk : sk[i].key = key].value
    ELSE NoValue

\* Map.set: a present key keeps its position and takes the new value
KnowledgeSet(sk, key, value) ==
    IF key \in KnowledgeKeys(sk)
    THEN [sk EXCEPT ![CHOOSE i \in DOMAIN sk : sk[i].key = key].value = value]
    ELSE Append(sk, [key |-> key, value |-> value])

\* Swarm.getSharedKnowledge, which only reads
getSharedKnowledge(key) == KnowledgeGet(sharedKnowledge, key)

\* the event of shareKnowledge, without the value
KnowledgeEv(key) == [name |-> "knowledge:shared", key |-> key]

\* Swarm.shareKnowledge
ShareKnowledge(key, value) ==
    /\ sharedKnowledge' = KnowledgeSet(sharedKnowledge, key, value)
    /\ emitted' = <<KnowledgeEv(key)>>
    /\ ret' = "none"
    /\ UNCHANGED <<config, state, members, leaderId, actions,
                   formationPositions, messages, metrics, microtasks, timers,
                   hist, positions, snapshot>>
    /\ UNCHANGED coordVars
    /\ UNCHANGED fieldVars

\* ------------------------------------------------------- swarm algorithms
\* SwarmAlgorithm
Algorithms == {"ant-colony", "particle-swarm", "flocking", "bees", "consensus"}

\* A result of Math.random(), in halves: 0 or 1/2.  Within one tick every
\* call made for the same member returns the same value.
Randoms == {0, 1}

\* Velocity components are fixed point, in hundredths, rounded down.
VelocityUnit == 100

\* A suggested target { x, y } as exact fractions x / den and y / den.
Point(x, y, den) == [x |-> x, y |-> y, den |-> den]

Suggestion(deviceId, target, reason) ==
    [name |-> "movement:suggested", deviceId |-> deviceId,
     target |-> target, reason |-> reason]

\* the suggestion of executeAntColony that follows a trail
TrailSuggestion(deviceId, target, trailId) ==
    [name |-> "movement:suggested", deviceId |-> deviceId,
     target |-> target, reason |-> "following-pheromone", trailId |-> trailId]

\* the suggestion of executeParticleSwarm and of executeFlocking
VelocitySuggestion(deviceId, target, velocity) ==
    [name |-> "movement:suggested", deviceId |-> deviceId,
     target |-> target, velocity |-> velocity]

\* the movement:suggested events among the emitted ones that name deviceId
SuggestionsFor(es, deviceId) ==
    SelectSeq(es, LAMBDA e : e.name = "movement:suggested" /\ e.deviceId = deviceId)

RECURSIVE Flatten(_)
Flatten(ss) == IF ss = <<>> THEN <<>> ELSE Head(ss) \o Flatten(Tail(ss))

RECURSIVE Sum(_)
Sum(ns) == IF ns = <<>> THEN 0 ELSE Head(ns) + Sum(Tail(ns))

\* Math.floor(Math.sqrt(n)), by bisection
RECURSIVE IsqrtIn(_, _, _)
IsqrtIn(n, lo, hi) ==
    LET mid == (lo + hi + 1) \div 2
    IN  IF lo >= hi THEN lo
        ELSE IF mid * mid <= n THEN IsqrtIn(n, mid, hi)
             ELSE IsqrtIn(n, lo, mid - 1)

Isqrt(n) == IsqrtIn(n, 0, Min(n, 40000))

\* cos(random * 2 * PI) for a random of 0 or 1/2; the sine is 0 for both
Cos(r) == IF r = 0 THEN 1 ELSE -1

\* SelectFrom that takes an entry only when the selection falls below 0
RECURSIVE SelectFromStrict(_, _, _)
SelectFromStrict(weights, selection, k) ==
    IF k > Len(weights) THEN 0
    ELSE IF selection - weights[k] < 0 THEN k
         ELSE SelectFromStrict(weights, selection - weights[k], k + 1)

\* The weighted selection loop: selection -= weight; if (selection <= 0)
\* take this entry.  0 stands for a loop that ends without taking one.
RECURSIVE SelectFrom(_, _, _)
SelectFrom(weights, selection, k) ==
    IF k > Len(weights) THEN 0
    ELSE IF selection - weights[k] <= 0 THEN k
         ELSE SelectFrom(weights, selection - weights[k], k + 1)

\* selection = Math.random() * total, followed by the loop; the weights and
\* the selection are doubled to keep the half exact
Select(weights, r) ==
    SelectFrom([k \in DOMAIN weights |-> 2 * weights[k]], r * Sum(weights), 1)

\* params.explorationRate || 0.3, in tenths
explorationRate == 3

\* Math.random() < explorationRate
Explores(r) == 10 * r < 2 * explorationRate

\* trail.path[1] || trail.path[0]
NextPoint(trail) == IF Len(trail.path) >= 2 THEN trail.path[2] ELSE trail.path[1]

\* one iteration of the loop of executeAntColony
antColonyStep(member, r) ==
    IF Explores(r)
    THEN <<Suggestion(member.deviceId,
                      Point(2 * member.location.x + (10 + 10 * r) * Cos(r),
                            2 * member.location.y, 2),
                      "exploration")>>
    ELSE LET nearbyTrails == findNearbyPheromones(member.location, 20)
             k == Select([i \in DOMAIN nearbyTrails |-> nearbyTrails[i].strength], r)
         IN  IF Len(nearbyTrails) > 0 /\ k > 0
             THEN <<TrailSuggestion(member.deviceId, NextPoint(nearbyTrails[k]),
                                    nearbyTrails[k].id)>>
             ELSE <<>>

executeAntColony(draws) ==
    /\ UNCHANGED <<members, sharedKnowledge>>
    /\ emitted' = Flatten([i \in DOMAIN members |-> antColonyStep(members[i], draws[i])])

\* `personalBest:${deviceId}`
PersonalBestKey(deviceId) == "personalBest:" \o deviceId

\* member.velocity is set: join gives every member one
HasVelocity(member) == "velocity" \in DOMAIN member

\* member.velocity && globalBest
MovesParticle(member, globalBest) ==
    HasVelocity(member) /\ globalBest # NoValue

\* maxVelocity = 10
maxVelocity == 10

\* v * scale with scale = speed > limit ? limit / speed : 1, speed and v in
\* hundredths
Limited(v, speed, limit) ==
    IF speed > limit * VelocityUnit
    THEN (v * limit * VelocityUnit) \div speed
    ELSE v

\* inertia 0.7, cognitive and social weight 1.5, r1 = r2 = r / 2
particleVelocity(member, personalBest, globalBest, r) ==
    LET newVx == (7 * member.velocity.vx) \div 10
                     + 75 * r * (personalBest.x - member.location.x)
                     + 75 * r * (globalBest.x - member.location.x)
        newVy == (7 * member.velocity.vy) \div 10
                     + 75 * r * (personalBest.y - member.location.y)
                     + 75 * r * (globalBest.y - member.location.y)
        speed == Isqrt(newVx * newVx + newVy * newVy)
    IN  [vx |-> Limited(newVx, speed, maxVelocity),
         vy |-> Limited(newVy, speed, maxVelocity)]

\* newLocation = location + member.velocity
Ahead(member) ==
    Point(VelocityUnit * member.location.x + member.velocity.vx,
          VelocityUnit * member.location.y + member.velocity.vy,
          VelocityUnit)

\* the particle moved by the velocity update, and its suggestion
particleMoved(member, personalBest, globalBest, r) ==
    LET moved == [member EXCEPT
                      !.velocity = particleVelocity(member, personalBest, globalBest, r)]
    IN  [member |-> moved,
         emitted |-> <<VelocitySuggestion(moved.deviceId, Ahead(moved), moved.velocity)>>]

\* particleStep with the member's own location for an absent globalBest
particleStepFallback(member, r) ==
    LET globalBest == getSharedKnowledge("globalBest")
        stored == getSharedKnowledge(PersonalBestKey(member.deviceId))
    IN  particleMoved(member,
                      IF stored # NoValue THEN stored ELSE member.location,
                      IF globalBest # NoValue THEN globalBest ELSE member.location,
                      r)

\* one iteration of the loop of executeParticleSwarm; personalBest is the
\* stored entry || member.location
particleStep(member, r) ==
    LET globalBest == getSharedKnowledge("globalBest")
        stored == getSharedKnowledge(PersonalBestKey(member.deviceId))
    IN  IF MovesParticle(member, globalBest)
        THEN particleMoved(member,
                           IF stored # NoValue THEN stored ELSE member.location,
                           globalBest, r)
        ELSE [member |-> member, emitted |-> <<>>]

executeParticleSwarm(draws) ==
    LET steps == [i \in DOMAIN members |-> particleStep(members[i], draws[i])]
    IN  /\ UNCHANGED sharedKnowledge
        /\ members' = [i \in DOMAIN members |-> steps[i].member]
        /\ emitted' = Flatten([i \in DOMAIN members |-> steps[i].emitted])

\* getNeighbors(deviceId, 30) over the roster ms, in roster order
getNeighbors(ms, deviceId, radius) ==
    SelectSeq(ms, LAMBDA other :
        /\ other.deviceId # deviceId
        /\ WithinRadius(ms[MemberIndex(ms, deviceId)].location, other.location, radius))

\* calculateDistance in hundredths
calculateDistance(a, b) == Isqrt(DistanceSquared(a, b) * VelocityUnit * VelocityUnit)

\* params.separationDistance || 5
separationDist == 5

\* maxSpeed = 5
maxSpeed == 5

\* one neighbour's share of the separation along x or y: (from - to) / dist
\* when 0 < dist < separationDist
Separation(member, neighbor, from, to) ==
    LET dist == calculateDistance(member.location, neighbor.location)
    IN  IF dist < separationDist * VelocityUnit /\ dist > 0
        THEN ((from - to) * VelocityUnit * VelocityUnit) \div dist
        ELSE 0

\* v * scale with scale = speed > 0 ? Math.min(maxSpeed / speed, 1) : 0
Normalized(v, speed) ==
    IF speed > 0 THEN Limited(v, speed, maxSpeed) ELSE 0

\* separation + alignment + cohesion * 0.1 with the weights 1
flockingVelocity(member, neighbors) ==
    LET n == Len(neighbors)
        separationX == Sum([k \in 1..n |->
            Separation(member, neighbors[k], member.location.x, neighbors[k].location.x)])
        separationY == Sum([k \in 1..n |->
            Separation(member, neighbors[k], member.location.y, neighbors[k].location.y)])
        avgVx == Sum([k \in 1..n |->
            IF HasVelocity(neighbors[k]) THEN neighbors[k].velocity.vx ELSE 0]) \div n
        avgVy == Sum([k \in 1..n |->
            IF HasVelocity(neighbors[k]) THEN neighbors[k].velocity.vy ELSE 0]) \div n
        cohesionX == (VelocityUnit * Sum([k \in 1..n |-> neighbors[k].location.x])) \div n
                         - VelocityUnit * member.location.x
        cohesionY == (VelocityUnit * Sum([k \in 1..n |-> neighbors[k].location.y])) \div n
                         - VelocityUnit * member.location.y
        newVx == separationX + avgVx + cohesionX \div 10
        newVy == separationY + avgVy + cohesionY \div 10
        speed == Isqrt(newVx * newVx + newVy * newVy)
    IN  [vx |-> Normalized(newVx, speed), vy |-> Normalized(newVy, speed)]

\* The loop of executeFlocking from the i-th member on: a member without
\* neighbours is skipped, and a later member reads the velocities that the
\* earlier iterations have already replaced.
RECURSIVE flockingFrom(_, _)
flockingFrom(ms, i) ==
    IF i > Len(ms) THEN [members |-> ms, emitted |-> <<>>]
    ELSE LET neighbors == getNeighbors(ms, ms[i].deviceId, 30)
         IN  IF Len(neighbors) = 0 THEN flockingFrom(ms, i + 1)
             ELSE LET moved == [ms EXCEPT ![i].velocity = flockingVelocity(ms[i], neighbors)]
                      rest == flockingFrom(moved, i + 1)
                  IN  [members |-> rest.members,
                       emitted |-> <<VelocitySuggestion(moved[i].deviceId, Ahead(moved[i]),
                                                        moved[i].velocity)>>
                                   \o rest.emitted]

executeFlocking ==
    LET flocked == flockingFrom(members, 1)
    IN  /\ UNCHANGED sharedKnowledge
        /\ members' = flocked.members
        /\ emitted' = flocked.emitted

\* scoutCount rounded down
scoutCountFloor(n) == (3 * n) \div 10

\* Math.ceil(members.length * 0.3)
scoutCount(n) == CeilDiv(3 * n, 10)

\* the names of the food sources the swarm is told about
FoodNames == {"a", "b"}

\* key.startsWith('foodSource:')
IsFoodSource(key) == \E name \in FoodNames : key = "foodSource:" \o name

\* the values of the food-source entries, in the order of the Map
foodSources(sk) ==
    LET entries == SelectSeq(sk, LAMBDA e : IsFoodSource(e.key))
    IN  [k \in DOMAIN entries |-> entries[k].value]

\* a scout's iteration: a point at the distance 10 + random * 20
beeScout(member, r) ==
    [member |-> [member EXCEPT !.role = "scout"],
     emitted |-> <<Suggestion(member.deviceId,
                              Point(member.location.x + (10 + 10 * r) * Cos(r),
                                    member.location.y, 1),
                              "scouting")>>]

\* a worker's iteration: the weighted selection among the food sources
beeWorker(member, r, sources) ==
    LET k == Select([i \in DOMAIN sources |-> sources[i].quality], r)
    IN  IF Len(sources) > 0 /\ k > 0
        THEN [member |-> [member EXCEPT !.role = "carrier"],
              emitted |-> <<Suggestion(member.deviceId, sources[k].location,
                                       "harvesting")>>]
        ELSE [member |-> member, emitted |-> <<>>]

\* beeStep with the workers taken as members.slice(0): a scout works too
beeStepAllWork(member, i, n, r, sources) ==
    IF i <= scoutCount(n)
    THEN [member |-> beeWorker(beeScout(member, r).member, r, sources).member,
          emitted |-> beeScout(member, r).emitted
                          \o beeWorker(member, r, sources).emitted]
    ELSE beeWorker(member, r, sources)

\* members.slice(0, scoutCount) scout, members.slice(scoutCount) work
beeStep(member, i, n, r, sources) ==
    IF i <= scoutCount(n) THEN beeScout(member, r)
    ELSE beeWorker(member, r, sources)

\* The scouts' suggestions come before the workers', both in roster order.
executeBeeAlgorithm(draws) ==
    LET n == Len(members)
        steps == [i \in DOMAIN members |->
                     beeStep(members[i], i, n, draws[i], foodSources(sharedKnowledge))]
    IN  /\ UNCHANGED sharedKnowledge
        /\ members' = [i \in DOMAIN members |-> steps[i].member]
        /\ emitted' = Flatten([i \in DOMAIN members |-> steps[i].emitted])

\* the sum of the members' x or y
SumX(ms) == Sum([i \in DOMAIN ms |-> ms[i].location.x])

SumY(ms) == Sum([i \in DOMAIN ms |-> ms[i].location.y])

\* { x: avgX, y: avgY }: the sums over the count, 0 / 0 for an empty roster
consensusTarget(ms) == Point(SumX(ms), SumY(ms), Len(ms))

\* consensusSuggestion with the weight 0.2
consensusSuggestionFifth(member, ms) ==
    Suggestion(member.deviceId,
               Point(4 * Len(ms) * member.location.x + SumX(ms),
                     4 * Len(ms) * member.location.y + SumY(ms),
                     5 * Len(ms)),
               "consensus")

\* location + (consensusTarget - location) * 0.1, over the denominator
\* 10 * n
consensusSuggestion(member, ms) ==
    Suggestion(member.deviceId,
               Point(9 * Len(ms) * member.location.x + SumX(ms),
                     9 * Len(ms) * member.location.y + SumY(ms),
                     10 * Len(ms)),
               "consensus")

executeConsensus ==
    /\ UNCHANGED members
    /\ emitted' = [i \in DOMAIN members |-> consensusSuggestion(members[i], members)]
    /\ sharedKnowledge' =
           KnowledgeSet(sharedKnowledge, "consensusTarget", consensusTarget(members))

\* Swarm.executeAlgorithm: none of the five bodies awaits anything, so one
\* call runs to its end in one step.  It does not test the state.
ExecuteAlgorithm ==
    /\ ret' = "none"
    /\ UNCHANGED <<config, state, leaderId, actions, formationPositions,
                   messages, metrics, microtasks, timers, hist, positions,
                   snapshot>>
    /\ UNCHANGED fieldVars
    /\ UNCHANGED coordVars
    /\ \/ /\ config.algorithm = "ant-colony"
          /\ \E draws \in [DOMAIN members -> Randoms] : executeAntColony(draws)
       \/ /\ config.algorithm = "particle-swarm"
          /\ \E draws \in [DOMAIN members -> Randoms] : executeParticleSwarm(draws)
       \/ /\ config.algorithm = "flocking"
          /\ executeFlocking
       \/ /\ config.algorithm = "bees"
          /\ \E draws \in [DOMAIN members -> Randoms] : executeBeeAlgorithm(draws)
       \/ /\ config.algorithm = "consensus"
          /\ executeConsensus

\* The algorithm engine: a swarm of each of the five algorithms.  d1 joins at
\* the origin, d2 five away and d3 ten away; d1 leaves and d2 reports a
\* velocity of (3, 4).  An ant colony is given a faint and a full trail, a
\* particle swarm best positions, a bee swarm food sources of quality 0, 1
\* and 3, a consensus swarm a target of its caller's.  The devices join before the first trail is laid, and a tick
\* starts from velocities that no earlier tick has set.
EngineConfigs ==
    [minDevices : {1}, maxDevices : {0}, leaderId : {NoDevice},
     pheromoneDecay : {0}, algorithm : Algorithms]

Cruising == [vx |-> 3 * VelocityUnit, vy |-> 4 * VelocityUnit]

FoodSource(location, quality) == [location |-> location, quality |-> quality]

BestPositions ==
    {<<"globalBest", Near>>, <<"globalBest", Far>>, <<PersonalBestKey("d1"), Near>>}

FoodReports ==
    {<<"foodSource:a", FoodSource(Near, 1)>>, <<"foodSource:a", FoodSource(Far, 0)>>,
     <<"foodSource:b", FoodSource(Origin, 3)>>}

TargetReports == {<<"consensusTarget", Point(6, 8, 1)>>}

KnowledgeReports ==
    CASE config.algorithm = "particle-swarm" -> BestPositions
      [] config.algorithm = "bees" -> FoodReports
      [] config.algorithm = "consensus" -> TargetReports
      [] OTHER -> {}

TrailReports == {<<<<Origin>>, FaintStrength>>, <<<<Far, Near>>, StrengthUnit>>}

Rested == \A i \in DOMAIN members : members[i].velocity \in {ZeroVelocity, Cruising}

InitEngine == InitWith(EngineConfigs)

NextEngine ==
    \/ trailCount = 0 /\ Join("d1", Origin, NoRole)
    \/ trailCount = 0 /\ Join("d2", Near, NoRole)
    \/ trailCount = 0 /\ Join("d3", Far, NoRole)
    \/ Leave("d1")
    \/ UpdateMemberLocation("d2", Near, Cruising)
    \/ \E kv \in KnowledgeReports : ShareKnowledge(kv[1], kv[2])
    \/ \E trail \in TrailReports :
           config.algorithm = "ant-colony" /\ DepositPheromone("d3", trail[1], trail[2])
    \/ Rested /\ ExecuteAlgorithm

SpecEngine == InitEngine /\ [][NextEngine]_vars

\* ------------------------------------------------------ the algorithm tick
\* C23: a tick of any of the five algorithms leaves the set of members, every
\* member's position, role and contribution, the leader reference and the
\* pheromone store as they were.
C23_TickKeepsMembership ==
    [][ExecuteAlgorithm =>
          /\ MemberKeys(members') = MemberKeys(members)
          /\ \A i \in DOMAIN members :
                 /\ members'[i].location = members[i].location
                 /\ members'[i].role = members[i].role
                 /\ members'[i].contribution = members[i].contribution
          /\ leaderId' = leaderId
          /\ pheromones' = pheromones]_vars

\* the number of suggestions the tick has emitted for the i-th member
Suggested(i) == Len(SuggestionsFor(emitted', members[i].deviceId))

\* C24: one tick emits exactly one movement:suggested notification for each
\* current member, whatever the algorithm and the roster.
C24_OneSuggestionEach ==
    [][ExecuteAlgorithm => \A i \in DOMAIN members : Suggested(i) = 1]_vars

\* the members the tick has something to suggest to, whatever is drawn
Guided(i) ==
    CASE config.algorithm = "consensus" -> TRUE
      [] config.algorithm = "particle-swarm" ->
             "globalBest" \in KnowledgeKeys(sharedKnowledge)
      [] config.algorithm = "flocking" ->
             \E j \in DOMAIN members :
                 /\ j # i
                 /\ DistanceSquared(members[i].location, members[j].location) <= 30 * 30
      [] config.algorithm = "bees" ->
             \/ 10 * (i - 1) < 3 * Len(members)
             \/ \E k \in DOMAIN sharedKnowledge : IsFoodSource(sharedKnowledge[k].key)
      [] config.algorithm = "ant-colony" ->
             \E t \in DOMAIN pheromones :
                 \E p \in DOMAIN pheromones[t].path :
                     DistanceSquared(members[i].location, pheromones[t].path[p])
                         <= 20 * 20

\* C24, amended: one tick emits at most one movement:suggested notification
\* per member.  It emits exactly one for every member of a consensus tick,
\* for a particle when globalBest is known, for a flocking member with a
\* neighbour within 30, for a bee scout, for a bee worker when a food source
\* is known and for an ant with a trail within 20; otherwise it emits none,
\* except for an ant, which may explore.
C24_SuggestionWhenGuided ==
    [][ExecuteAlgorithm =>
          \A i \in DOMAIN members :
              /\ Suggested(i) <= 1
              /\ Guided(i) => Suggested(i) = 1
              /\ (~Guided(i) /\ config.algorithm # "ant-colony") => Suggested(i) = 0]_vars

\* a bee tick has just sent the scout out and the worker to a food source
C24_Witness ==
    /\ config.algorithm = "bees"
    /\ Len(members) = 2
    /\ Len(emitted) = 2
    /\ emitted[1].name = "movement:suggested" /\ emitted[1].reason = "scouting"
    /\ emitted[2].name = "movement:suggested" /\ emitted[2].reason = "harvesting"

\* C25: a particle-swarm tick without a globalBest entry emits no suggestion
\* and changes no member and no knowledge entry.
C25_NoGlobalBestNoOp ==
    [][(/\ config.algorithm = "particle-swarm"
        /\ getSharedKnowledge("globalBest") = NoValue
        /\ ExecuteAlgorithm) =>
           /\ emitted' = <<>>
           /\ members' = members
           /\ sharedKnowledge' = sharedKnowledge]_vars

\* a particle-swarm tick has just run for two members, one of them with a
\* personal best, while no globalBest was known
C25_Witness ==
    /\ config.algorithm = "particle-swarm"
    /\ Len(members) = 2
    /\ PersonalBestKey("d1") \in KnowledgeKeys(sharedKnowledge)
    /\ "globalBest" \notin KnowledgeKeys(sharedKnowledge)
    /\ ret = "none"
    /\ emitted = <<>>
    /\ \E i \in DOMAIN members : members[i].velocity = Cruising

\* the target of the suggestion is one tenth of the way from the location
\* to the centroid of the roster ms: 10 * (target - location) = centroid -
\* location, with the centroid's and the target's denominators cleared
TenthOfTheWay(location, target, ms) ==
    /\ target.den > 0
    /\ 10 * Len(ms) * (target.x - target.den * location.x)
           = target.den * (Sum([j \in DOMAIN ms |-> ms[j].location.x])
                               - Len(ms) * location.x)
    /\ 10 * Len(ms) * (target.y - target.den * location.y)
           = target.den * (Sum([j \in DOMAIN ms |-> ms[j].location.y])
                               - Len(ms) * location.y)

\* the point is the centroid of the roster ms
IsCentroid(point, ms) ==
    /\ point.den > 0
    /\ point.x * Len(ms) = point.den * Sum([j \in DOMAIN ms |-> ms[j].location.x])
    /\ point.y * Len(ms) = point.den * Sum([j \in DOMAIN ms |-> ms[j].location.y])

\* C26: a consensus tick on a roster that is not empty suggests to every
\* member, in roster order, the point one tenth of the way from its location
\* to the centroid of all members' locations, and leaves the centroid as the
\* consensusTarget entry; a read of a key returns what was last written to
\* it, by shareKnowledge or by the tick, and a write leaves the other keys.
C26_ConsensusTowardCentroid ==
    [][/\ (config.algorithm = "consensus" /\ Len(members) > 0 /\ ExecuteAlgorithm) =>
              /\ Len(emitted') = Len(members)
              /\ \A i \in DOMAIN members :
                     /\ emitted'[i].name = "movement:suggested"
                     /\ emitted'[i].deviceId = members[i].deviceId
                     /\ emitted'[i].reason = "consensus"
                     /\ TenthOfTheWay(members[i].location, emitted'[i].target, members)
              /\ IsCentroid(KnowledgeGet(sharedKnowledge', "consensusTarget"), members)
       /\ \A kv \in KnowledgeReports :
              ShareKnowledge(kv[1], kv[2]) =>
                  /\ KnowledgeGet(sharedKnowledge', kv[1]) = kv[2]
                  /\ \A key \in KnowledgeKeys(sharedKnowledge) \ {kv[1]} :
                         KnowledgeGet(sharedKnowledge', key)
                             = KnowledgeGet(sharedKnowledge, key)]_vars

\* a consensus tick has just run for d1, d2 and d3 at three places and has
\* left their centroid (3, 4) as the consensusTarget
C26_Witness ==
    /\ config.algorithm = "consensus"
    /\ Len(members) = 3
    /\ {members[i].location : i \in DOMAIN members} = {Origin, Near, Far}
    /\ Len(emitted) = 3
    /\ \A i \in DOMAIN emitted :
           emitted[i].name = "movement:suggested" /\ emitted[i].reason = "consensus"
    /\ getSharedKnowledge("consensusTarget") = Point(9, 12, 3)

\* the least whole number that is at least three tenths of n
ThreeTenthsUp(n) == CHOOSE k \in 0..n : 10 * k >= 3 * n /\ 10 * (k - 1) < 3 * n

\* the locations of the food sources the swarm knows
FoodLocations ==
    {sharedKnowledge[k].value.location :
        k \in {j \in DOMAIN sharedKnowledge : IsFoodSource(sharedKnowledge[j].key)}}

\* C27: in a bees tick over n members the first ceil(0.3 * n) members of the
\* roster get one scouting suggestion each; each of the others gets one
\* harvesting suggestion whose target is the location of a known food
\* source, and none when no food source is known.
C27_ScoutsAndCarriers ==
    [][(config.algorithm = "bees" /\ ExecuteAlgorithm) =>
          \A i \in DOMAIN members :
              LET given == SuggestionsFor(emitted', members[i].deviceId)
              IN  IF i <= ThreeTenthsUp(Len(members))
                  THEN Len(given) = 1 /\ given[1].reason = "scouting"
                  ELSE IF FoodLocations # {}
                       THEN /\ Len(given) = 1
                            /\ given[1].reason = "harvesting"
                            /\ given[1].target \in FoodLocations
                       ELSE Len(given) = 0]_vars

\* a bees tick has just sent d1 scouting and the two others to two
\* different food sources
C27_Witness ==
    /\ config.algorithm = "bees"
    /\ Len(members) = 3
    /\ Len(emitted) = 3
    /\ \A i \in DOMAIN emitted : emitted[i].name = "movement:suggested"
    /\ emitted[1].reason = "scouting"
    /\ emitted[2].reason = "harvesting"
    /\ emitted[3].reason = "harvesting"
    /\ emitted[2].target # emitted[3].target
    /\ {emitted[2].target, emitted[3].target} \subseteq FoodLocations

\* ------------------------------------------------------------------ metrics
\* the target the coordinated actions of the model are started with
ActionTarget == Origin

\* A position on a circle as x and y in hundredths, for the angles that are
\* whole quarter turns: four times the radius is the root of radiusSq16.
Cartesian(position) ==
    LET r == 25 * Isqrt(position.radiusSq16)
        quarter == (4 * position.num) \div position.den
    IN  [x |-> VelocityUnit * position.cx
                   + (CASE quarter = 0 -> r [] quarter = 2 -> -r [] OTHER -> 0),
         y |-> VelocityUnit * position.cy
                   + (CASE quarter = 1 -> r [] quarter = 3 -> -r [] OTHER -> 0),
         z |-> VelocityUnit * position.z]

\* formationPositions.get(deviceId): the position coordinatedAction took for
\* the device from the CIRCLE, the formation used when none is given
targetPos(deviceId) ==
    LET assigned == formationPositions[deviceId]
        count == Len(actions[assigned.actionId].participants)
    IN  Cartesian(calculateFormationPositions(ActionTarget, "circle", count, <<>>)
                      [assigned.index])

\* calculateDistance of a location and a position in hundredths, in hundredths
distanceTo(location, position) ==
    Isqrt((position.x - VelocityUnit * location.x) * (position.x - VelocityUnit * location.x)
          + (position.y - VelocityUnit * location.y) * (position.y - VelocityUnit * location.y)
          + (position.z - VelocityUnit * location.z) * (position.z - VelocityUnit * location.z))

\* the members that have a formation position, in the order of the roster
Positioned(ms) == SelectSeq(ms, LAMBDA m : formationPositions[m.deviceId] # NoPosition)

\* getFormationAccuracy without the lower limit of 0
getFormationAccuracyUnlimited(ms) ==
    LET placed == Positioned(ms)
        totalDistance == Sum([k \in DOMAIN placed |->
                                 distanceTo(placed[k].location, targetPos(placed[k].deviceId))])
    IN  IF Len(placed) = 0 THEN 0
        ELSE (100 * VelocityUnit - 10 * (totalDistance \div Len(placed))) \div VelocityUnit

\* Swarm.getFormationAccuracy, in whole percent:
\* Math.max(0, 1 - avgDistance / 10) * 100
getFormationAccuracy(ms) ==
    LET placed == Positioned(ms)
        totalDistance == Sum([k \in DOMAIN placed |->
                                 distanceTo(placed[k].location, targetPos(placed[k].deviceId))])
    IN  IF Len(placed) = 0 THEN 0
        ELSE Max(0, (100 * VelocityUnit - 10 * (totalDistance \div Len(placed)))
                        \div VelocityUnit)

\* Swarm.calculateCoverage, in whole percent: the average distance of the
\* pairs of members over 50, at most 100
calculateCoverage(ms) ==
    LET n == Len(ms)
        totalDistance == Sum([i \in 1..n |-> Sum([j \in 1..n |->
            IF j > i THEN calculateDistance(ms[i].location, ms[j].location) ELSE 0])])
    IN  IF n < 2 THEN 0
        ELSE Min((2 * totalDistance) \div (((n * (n - 1)) \div 2) * VelocityUnit), 100)

\* Swarm.calculateEfficiency, in whole percent: join gives every member the
\* state 'active' and nothing changes it, so activeMembers is the roster
calculateEfficiency(ms) ==
    IF Len(ms) = 0 THEN 0
    ELSE (Len(ms) * 50) \div Len(ms) + Min(SumContribution(ms) \div Len(ms), 50)

\* Swarm.getMetrics: updateMetrics, then a copy of the metrics
GetMetrics ==
    /\ metrics' = updateMetrics(members, actions, metrics)
    /\ snapshot' = [memberCount |-> metrics'.memberCount,
                    coverage |-> calculateCoverage(members),
                    efficiency |-> calculateEfficiency(members),
                    messagesExchanged |-> metrics'.messagesExchanged,
                    objectiveProgress |-> metrics'.objectiveProgress,
                    averageContribution |-> metrics'.averageContribution,
                    formationAccuracy |-> getFormationAccuracy(members)]
    /\ emitted' = <<Ev("metrics:updated", NoDevice, 0)>>
    /\ ret' = "metrics"
    /\ UNCHANGED <<config, state, members, leaderId, actions,
                   formationPositions, messages, microtasks, timers, hist,
                   sharedKnowledge, positions>>
    /\ UNCHANGED coordVars
    /\ UNCHANGED fieldVars

\* Metrics: d1 and then d2 join at the origin or ten away from it before the
\* first action, an action is started for the roster once the earlier ones
\* are completed, d2 leaves between two actions, the latest action is
\* reported once by a device, and the metrics are read once, at any point.
MetricsPlaces == {Origin, Far}

Unread == snapshot = <<>>

Settled == \A a \in DOMAIN actions : actions[a].status = "completed"

InitMetrics == InitWith(ActionConfigs)

NextMetrics ==
    \/ \E l \in MetricsPlaces :
           Unread /\ actions = <<>> /\ members = <<>> /\ Join("d1", l, NoRole)
    \/ \E l \in MetricsPlaces :
           Unread /\ actions = <<>> /\ Len(members) = 1 /\ Join("d2", l, NoRole)
    \/ Unread /\ actions # <<>> /\ Settled /\ Leave("d2")
    \/ Unread /\ Settled /\ CoordinatedAction(NoParticipants, FALSE)
    \/ Unread /\ CoordinatedActionResume
    \/ \E d \in {"d1", "d2"} :
           /\ Unread
           /\ actions # <<>>
           /\ d \notin Range(actions[Len(actions)].completedBy)
           /\ ReportActionComplete(d, Len(actions), TRUE)
    \/ GetMetrics

SpecMetrics == InitMetrics /\ [][NextMetrics]_vars

Percent == 0..100

\* C28: a metrics snapshot has the size of the roster as its memberCount and
\* the share of the completed actions among all actions, times 100, as its
\* objective progress, 0 when no action was started; its coverage,
\* efficiency, formation accuracy and objective progress are within 0..100.
C28_SnapshotInRange ==
    [][GetMetrics =>
          /\ snapshot'.memberCount = Len(members)
          /\ snapshot'.objectiveProgress =
                 IF Len(actions) = 0 THEN 0
                 ELSE (100 * Cardinality({a \in DOMAIN actions :
                                             actions[a].status = "completed"}))
                          \div Len(actions)
          /\ snapshot'.coverage \in Percent
          /\ snapshot'.efficiency \in Percent
          /\ snapshot'.formationAccuracy \in Percent
          /\ snapshot'.objectiveProgress \in Percent]_vars

\* a snapshot of two members ten apart that have contributed, with one of
\* two actions completed and the members off their positions, but less than
\* 10 on average
C28_Witness ==
    /\ ret = "metrics"
    /\ snapshot.memberCount = 2
    /\ snapshot.coverage = 20
    /\ snapshot.objectiveProgress = 50
    /\ snapshot.formationAccuracy \in 1..99
    /\ snapshot.efficiency > 50

\* ----------------------------------------------------------- action timeouts
\* Timeouts: d1 and then d2 join before the first action, every action is
\* started for the roster with a timeout, each member reports an action
\* once, and the timeouts fire in any order.
InitTimeout == InitWith(ActionConfigs)

NextTimeout ==
    \/ actions = <<>> /\ members = <<>> /\ Join("d1", Origin, NoRole)
    \/ actions = <<>> /\ Len(members) = 1 /\ Join("d2", Origin, NoRole)
    \/ CoordinatedAction(NoParticipants, TRUE)
    \/ CoordinatedActionResume
    \/ \E a \in ActionIds : ActionTimeout(a)
    \/ \E d \in {"d1", "d2"}, a \in DOMAIN actions :
           /\ d \notin Range(actions[a].completedBy)
           /\ ReportActionComplete(d, a, TRUE)

SpecTimeout == InitTimeout /\ [][NextTimeout]_vars

\* C29: a timeout that fires changes neither the state of the swarm, nor the
\* roster, nor the status or the completedBy of any other action; when its
\* action is already completed it changes nothing at all and emits nothing.
C29_TimeoutOnlyItsAction ==
    [][\A a \in ActionIds :
          ActionTimeout(a) =>
              /\ state' = state
              /\ members' = members
              /\ leaderId' = leaderId
              /\ DOMAIN actions' = DOMAIN actions
              /\ \A b \in DOMAIN actions \ {a} : actions'[b] = actions[b]
              /\ actions'[a].completedBy = actions[a].completedBy
              /\ actions[a].status = "completed" =>
                     /\ emitted' = <<>>
                     /\ UNCHANGED <<config, actions, formationPositions,
                                    messages, metrics, hist>>]_vars

\* the timeout of the first action, completed by both members, has fired
\* while the second action is executing with its timeout still to come
C29_Witness ==
    /\ ret = "none"
    /\ emitted = <<>>
    /\ Len(actions) = 2
    /\ actions[1].status = "completed"
    /\ Len(actions[1].completedBy) = 2
    /\ 1 \notin timers
    /\ actions[2].status = "executing"
    /\ 2 \in timers

\* ------------------------------------------------- ordering of an action start
\* the actions registered by a coordinatedAction whose part after the await
\* of the broadcast has not run yet
InFlight ==
    {microtasks[i].actionId : i \in {j \in DOMAIN microtasks :
                                         microtasks[j].kind = "coordinatedAction"}}

\* C30: from the registration of an action as pending until its status is
\* set to executing, no step changes the roster, the state of the swarm or
\* the completedBy of an action: no join, leave, report or dissolve takes
\* effect in between.
C30_StartNotInterleaved ==
    [][InFlight # {} =>
          /\ members' = members
          /\ state' = state
          /\ \A a \in DOMAIN actions :
                 actions'[a].completedBy = actions[a].completedBy]_vars

\* ------------------------------------------------------ circle of four
\* C31: the circle of 4 around (0, 0) has 4 positions of radius 5 a quarter
\* turn apart: (5, 0), (0, 5), (-5, 0) and (0, -5), here in hundredths.
C31_CircleOfFour ==
    [][CalculateFormationPositions(Origin, "circle", 4) =>
          /\ Len(positions') = 4
          /\ \A k \in 1..4 :
                 /\ positions'[k].radiusSq16 = (4 * 5) * (4 * 5)
                 /\ 4 * positions'[k].num = (k - 1) * positions'[k].den
          /\ Cartesian(positions'[1]) = [x |-> 500, y |-> 0, z |-> 0]
          /\ Cartesian(positions'[2]) = [x |-> 0, y |-> 500, z |-> 0]
          /\ Cartesian(positions'[3]) = [x |-> -500, y |-> 0, z |-> 0]
          /\ Cartesian(positions'[4]) = [x |-> 0, y |-> -500, z |-> 0]]_vars

\* the circle of 4 around the origin has been computed
C31_Witness ==
    /\ ret = "positions"
    /\ Len(positions) = 4
    /\ \A k \in 1..4 : positions[k] = Polar(Origin, 400, k - 1, 4)

\* ------------------------------------------------------------- the coordinator
\* the id of the swarm of the model, as the coordinator tags its events
SwarmId == "s1"

\* the events array of forwardSwarmEvents
forwardedEvents ==
    {"swarm:ready", "swarm:dissolved", "swarm:understaffed",
     "member:joined", "member:left", "member:updated",
     "action:started", "action:completed", "action:timeout",
     "movement:suggested", "pheromone:deposited",
     "message:broadcast", "message:direct",
     "leader:elected", "sector:assigned", "metrics:updated"}

\* the listener's emit(event, { ...data, swarmId: swarm.id })
Tagged(event) == [event |-> event, swarmId |-> SwarmId]

\* what the coordinator emits, synchronously, for the events a step of its
\* swarm emitted: a listener is registered for the names of the array only
forwardSwarmEvents(events) ==
    LET heard == SelectSeq(events, LAMBDA e : e.name \in forwardedEvents)
    IN  [i \in DOMAIN heard |-> Tagged(heard[i])]

\* the notifications the coordinator is to fan out
Notifications ==
    {"member:joined", "member:left", "leader:elected", "swarm:ready",
     "swarm:understaffed", "movement:suggested", "pheromone:deposited",
     "pheromone:expired", "action:started", "action:completed",
     "action:timeout", "metrics:updated"}

Count(seq, x) == Cardinality({i \in DOMAIN seq : seq[i] = x})

\* C32: every notification a step of the swarm emits is emitted by the
\* coordinator exactly once for each time the swarm emitted it, tagged with
\* the id of the swarm.
C32_EveryNotificationForwarded ==
    \A i \in DOMAIN emitted :
        emitted[i].name \in Notifications =>
            Count(forwardSwarmEvents(emitted), Tagged(emitted[i]))
                = Count(emitted, emitted[i])

\* ------------------------------------------------- the coordinator's swarms
\* The coordinator's swarms are kept by their id and their Swarm.state,
\* which is all formSwarm, dissolveSwarm and getActiveSwarms look at.

\* the most swarms ever formed in a behaviour
MaxFormed == 3

\* config.maxSwarms as given to the constructor, 0 when it is left out
MaxSwarms == 2

\* the swarm's own variables, which the coordinator's calls leave alone
swarmVars == <<config, state, members, leaderId, actions, formationPositions,
               messages, metrics, microtasks, timers, hist,
               sharedKnowledge, positions, snapshot>>

SwarmIds(ss) == {ss[i].id : i \in DOMAIN ss}

SwarmIndex(ss, id) == CHOOSE i \in DOMAIN ss : ss[i].id = id

\* this.swarms.size >= this.maxSwarms
LimitReached == Len(swarms) >= maxSwarms

\* SwarmIntelligence.formSwarm
FormSwarm ==
    /\ UNCHANGED <<swarmVars, fieldVars, maxSwarms, continuations>>
    /\ IF LimitReached
       THEN /\ ret' = "error"
            /\ emitted' = <<>>
            /\ UNCHANGED <<swarms, swarmCount>>
       ELSE /\ swarmCount < MaxFormed
            /\ swarmCount' = swarmCount + 1
            /\ swarms' = Append(swarms, [id |-> swarmCount + 1, state |-> "forming"])
            /\ emitted' = <<[name |-> "swarm:formed", swarmId |-> swarmCount + 1]>>
            /\ ret' = "swarm"

\* the part of Swarm.dissolve before its await, on a swarm of the coordinator
Dispersing(ss, id) ==
    [ss EXCEPT ![SwarmIndex(ss, id)].state = "dispersing"]

\* Swarm.dissolve called on the swarm itself, up to its await
SwarmDissolve(id) ==
    /\ UNCHANGED <<swarmVars, fieldVars, maxSwarms, swarmCount>>
    /\ id \in SwarmIds(swarms)
    /\ swarms' = Dispersing(swarms, id)
    /\ continuations' = Append(continuations,
           [kind |-> "dissolve", id |-> id, awaited |-> FALSE])
    /\ emitted' = <<Ev("message:broadcast", NoDevice, 0)>>
    /\ ret' = "none"

\* SwarmIntelligence.dissolveSwarm up to its await of swarm.dissolve()
DissolveSwarm(id) ==
    /\ UNCHANGED <<swarmVars, fieldVars, maxSwarms, swarmCount>>
    /\ ret' = "none"
    /\ IF id \notin SwarmIds(swarms)
       THEN /\ emitted' = <<>>
            /\ UNCHANGED <<swarms, continuations>>
       ELSE /\ swarms' = Dispersing(swarms, id)
            /\ continuations' = Append(continuations,
                   [kind |-> "dissolve", id |-> id, awaited |-> TRUE])
            /\ emitted' = <<Ev("message:broadcast", NoDevice, 0)>>

\* Swarm.dissolve after its await; when dissolveSwarm awaits it, the part of
\* dissolveSwarm after the await is queued
SwarmDissolveResume ==
    /\ UNCHANGED <<swarmVars, fieldVars, maxSwarms, swarmCount>>
    /\ continuations # <<>>
    /\ Head(continuations).kind = "dissolve"
    /\ LET id == Head(continuations).id
       IN  /\ swarms' = IF id \in SwarmIds(swarms)
                        THEN [swarms EXCEPT ![SwarmIndex(swarms, id)].state = "dissolved"]
                        ELSE swarms
           /\ continuations' =
                  IF Head(continuations).awaited
                  THEN Append(Tail(continuations),
                              [kind |-> "delete", id |-> id, awaited |-> FALSE])
                  ELSE Tail(continuations)
    /\ emitted' = <<Ev("swarm:dissolved", NoDevice, 0)>>
    /\ ret' = "none"

\* SwarmIntelligence.dissolveSwarm after its await: this.swarms.delete(swarmId)
DissolveSwarmResume ==
    /\ UNCHANGED <<swarmVars, fieldVars, maxSwarms, swarmCount>>
    /\ continuations # <<>>
    /\ Head(continuations).kind = "delete"
    /\ swarms' = SelectSeq(swarms, LAMBDA s : s.id # Head(continuations).id)
    /\ continuations' = Tail(continuations)
    /\ emitted' = <<>>
    /\ ret' = "none"

\* SwarmIntelligence.getActiveSwarms
getActiveSwarms == SelectSeq(swarms, LAMBDA s : s.state # "dissolved")

\* Coordinator: a coordinator made with maxSwarms MaxSwarms, or without one,
\* forms swarms, dissolves them by their id (a known one or one it never
\* gave out), and the swarms are dissolved on their own; a swarm is
\* dissolved by one call at a time.
Settling(id) == \E i \in DOMAIN continuations : continuations[i].id = id

InitCoordinator == InitFor(ActionConfigs, {0, MaxSwarms})

NextCoordinator ==
    \/ FormSwarm
    \/ \E id \in 1..MaxFormed :
           /\ ~Settling(id)
           /\ id \in SwarmIds(getActiveSwarms)
           /\ SwarmDissolve(id)
    \/ \E id \in 1..MaxFormed : ~Settling(id) /\ DissolveSwarm(id)
    \/ SwarmDissolveResume
    \/ DissolveSwarmResume

SpecCoordinator == InitCoordinator /\ [][NextCoordinator]_vars

\* the swarms that count against the limit: those not dissolved, and a
\* dissolved one that dissolveSwarm is about to delete
Counted == SelectSeq(swarms, LAMBDA s : s.state # "dissolved" \/ Settling(s.id))

\* C33: the coordinator holds at most maxSwarms swarms, and formSwarm fails
\* and creates nothing exactly when maxSwarms swarms that are not dissolved
\* are held, whichever way a swarm was dissolved.
C33_LimitCountsLiveSwarms ==
    [][FormSwarm =>
          /\ Len(swarms') <= maxSwarms
          /\ (ret' = "error" /\ swarms' = swarms) <=> (Len(Counted) >= maxSwarms)]_vars

\* C34: no step changes the participants of an action that exists, and
\* every device in an action's completedBy is one of its participants.
C34_ParticipantsFixed ==
    [][\A a \in DOMAIN actions :
          /\ a \in DOMAIN actions'
          /\ actions'[a].participants = actions[a].participants
          /\ Range(actions'[a].completedBy) \subseteq Range(actions'[a].participants)]_vars

\* C35: completed is absorbing: an action whose status is completed keeps
\* that status in every later step, whatever the order of the start, the
\* reports and the timeout.
C35_CompletedIsAbsorbing ==
    [][\A a \in DOMAIN actions :
          actions[a].status = "completed" =>
              /\ a \in DOMAIN actions'
              /\ actions'[a].status = "completed"]_vars

\* The timeouts, with the microtask queue always drained and every timer
\* that is set firing in the end.
SpecTimeoutLive ==
    /\ SpecTimeout
    /\ WF_vars(CoordinatedActionResume)
    /\ \A a \in ActionIds : WF_vars(ActionTimeout(a))

Terminal == {"completed", "failed"}

\* C36: when every timer fires in the end, an action started with a timeout
\* is eventually completed or failed, whichever participants report.
C36_TimedActionEnds ==
    \A a \in ActionIds :
        (a \in DOMAIN actions)
            ~> (a \in DOMAIN actions /\ actions[a].status \in Terminal)

\* the first action has failed by its timeout after one of its two
\* participants reported
C36_Witness ==
    /\ Len(actions) >= 1
    /\ Len(actions[1].participants) = 2
    /\ Len(actions[1].completedBy) = 1
    /\ actions[1].status = "failed"
    /\ 1 \notin timers
    /\ EmittedNames = {"action:timeout"}

\* C37: a member of the roster has the role leader exactly when leaderId
\* names it, so at most one member has the role leader.
C37_LeaderRoleIffLeaderId ==
    \A i \in DOMAIN members :
        members[i].role = "leader" <=> leaderId = members[i].deviceId

\* C38: once a dissolve has begun (state dispersing or dissolved) no join is
\* admitted: a join returns false and the roster gets no new member.
C38_NoJoinOnceDissolving ==
    [][DissolveBegun =>
          /\ MemberIds(members') \subseteq MemberIds(members)
          /\ \A d \in Devices :
                 Join(d, Origin, NoRole) => (ret' = "false" /\ members' = members)]_vars

\* C39: a leave of a device that is not the leader leaves leaderId as it is
\* and emits no leader:elected; leader:elected is emitted only by a leave
\* of the leader, a member, that leaves a member in the roster.
C39_ElectionOnlyWhenLeaderLeaves ==
    [][/\ \A d \in Devices :
              (d # leaderId /\ Leave(d)) =>
                  /\ leaderId' = leaderId
                  /\ "leader:elected" \notin {emitted'[i].name : i \in DOMAIN emitted'}
       /\ "leader:elected" \in {emitted'[i].name : i \in DOMAIN emitted'} =>
              /\ leaderId \in MemberIds(members)
              /\ Leave(leaderId)
              /\ members' # <<>>]_vars

\* the leader has left two members behind and one of them was elected
C39_Witness ==
    /\ EmittedNames = {"leader:elected", "member:left", "metrics:updated"}
    /\ Len(members) = 2
    /\ leaderId \in MemberIds(members)

\* C40: whatever the algorithm, a tick emits at most one movement:suggested
\* for a device, and each one it emits is for a member of the roster the
\* tick started with.
C40_AtMostOnePerMember ==
    [][ExecuteAlgorithm =>
          /\ \A d \in Devices : Len(SuggestionsFor(emitted', d)) <= 1
          /\ \A i \in DOMAIN emitted' :
                 emitted'[i].name = "movement:suggested" =>
                     emitted'[i].deviceId \in MemberIds(members)]_vars

\* a tick on the roster of d2 and d3, which d1 is not in, has emitted a
\* suggestion for d2 and one for d3
C40_Witness ==
    /\ ret = "none"
    /\ MemberIds(members) = {"d2", "d3"}
    /\ Len(emitted) = 2
    /\ \A i \in 1..2 : emitted[i].name = "movement:suggested"
    /\ {emitted[i].deviceId : i \in 1..2} = {"d2", "d3"}

====
